---- MODULE Spec2Model ----
(***************************************************************************)
(* State-machine model of libmcount/mcount.c: the per-thread return stack, *)
(* the entry/exit filter, deferred record emission and the shared-memory   *)
(* buffer ring of one traced thread, together with the external recorder   *)
(* that drains the ring.                                                    *)
(*                                                                         *)
(* One traced thread is modelled; its hooks run to completion on that      *)
(* thread.  The recorder (consumer) is a second process that only touches  *)
(* the flag word of a segment.                                             *)
(***************************************************************************)
EXTENDS Integers, Sequences, FiniteSets, TLC

VARIABLES
    conf,             \* configuration read by __monstartup() and the traced program
    mtd,              \* struct mcount_thread_data of the thread (TLS)
    tsd,              \* pthread_getspecific(mtd_key) != NULL
    shm,              \* the shared-memory objects of the thread, by ring index
    mcount_enabled,   \* static bool mcount_enabled
    mcount_finished,  \* bool mcount_finished
    now,              \* CLOCK_MONOTONIC
    pc,               \* the hook the thread is inside of and its argument
    alive,            \* FALSE once pr_err()/pr_err_ns() ended the process
    pending,          \* segments whose REC_END the recorder has not handled yet
    hist,             \* history: records written and control messages sent, in order
    dropped,          \* history: records dropped since the last LOST report
    ncalls,           \* history: entry hooks that ran so far (gives each call its id)
    calls,            \* history: by call id, the calls in flight at its entry
    nested,           \* history: hook calls made from inside a hook
    last,             \* history: what the last hook call did
    os                \* the operating system: the id of the running thread and
                      \* the shared-memory objects created so far, by name

vars == <<conf, mtd, tsd, shm, mcount_enabled, mcount_finished, now, pc, alive,
          pending, hist, dropped, ncalls, calls, nested, last, os>>

----------------------------------------------------------------------------
(* Bounds of the model *)

\* entry hooks per behaviour
MaxCalls == 3
\* clock ticks per behaviour
MaxTime == 2
\* shared-memory segments the system lets the thread create (shm_open/mmap
\* fail beyond it)
MaxSeg == 3
\* the smaller of the two values of FTRACE_MAX_STACK explored
MaxStack == 2
\* hook calls made from inside a hook, per behaviour
MaxNested == 2

----------------------------------------------------------------------------
(* Program constants *)

\* sizeof(struct ftrace_ret_stack)
RecSize == 20
\* sizeof(struct mcount_shmem_buffer): flag and size words before data[]
HdrSize == 8
\* ARGBUF_SIZE
ARGBUF_SIZE == 1024
\* FTRACE_THRESHOLD, the value mcount_threshold gets in __monstartup()
mcount_threshold == 1

\* int mcount_rstack_max: the value __monstartup() reads from FTRACE_MAX_STACK
mcount_rstack_max == conf.max_stack

FTRACE_ENTRY == "ENTRY"
FTRACE_EXIT == "EXIT"
FTRACE_LOST == "LOST"

FILTER_IN == "FILTER_IN"
FILTER_OUT == "FILTER_OUT"

SKIP_FLAGS == {"NORECORD", "DISABLED"}

Min(S) == CHOOSE x \in S : \A y \in S : x <= y

ALIGN(x, a) == ((x + a - 1) \div a) * a

\* rstack[] and argbuf[] have mcount_rstack_max slots; the slots of the model
\* from mcount_rstack_max on are the memory behind them, which no hook may
\* touch
Slots == 0 .. (MaxStack + 1)
Segs == 0 .. (MaxSeg + 1)

\* a slot of rstack[] above idx: its content is never read before the next
\* entry hook assigns it
NoEntry ==
    [id |-> 0, style |-> "none", depth |-> 0, parent_loc |-> 0,
     parent_ip |-> 0, child_ip |-> "none",
     start_time |-> 0, end_time |-> 0, flags |-> {}, filter_depth |-> 0,
     pargs |-> <<>>]

\* the address of the return trampoline, and the address call id was to
\* return to: what the return slot of that call holds when the entry hook
\* is called.  The field parent_loc of a frame of the model is the content
\* of the frame's return slot, *parent_loc.
mcount_return == 0
RetAddr(id) == id

\* a shared-memory object that does not exist (yet)
\* tid is the thread id in the object's name, the ring index being the rest
\* of it; trail is history: the values stored into the flag word, in order
NoSeg == [flag |-> {}, size |-> 0, trail |-> <<>>, tid |-> 0]

\* a store into the flag word of a segment
store_flag(seg, v) == [seg EXCEPT !.flag = v, !.trail = Append(@, v)]

----------------------------------------------------------------------------
(* The operators below take and return a "world" w: the part of the state a
   hook can change, [mtd, tsd, shm, en, pending, hist, dropped, alive, os,
   env].
   w.en is mcount_enabled.  w.env holds what the environment decides while
   the hook runs: allocs, the number of segment allocations that still
   succeed, and eager, whether the recorder handles a REC_END message before
   the hook goes on. *)

Msg(type, buf, payload) ==
    [k |-> "msg", type |-> type, id |-> 0, depth |-> 0, addr |-> payload,
     time |-> 0, buf |-> buf, off |-> 0, more |-> 0]

\* a record written to segment buf at offset off.  id names the call the
\* record is of; in a LOST record it holds the history count of the records
\* dropped since the last LOST report.
Rec(type, id, depth, addr, time, buf, off, more) ==
    [k |-> "rec", type |-> type, id |-> id, depth |-> depth, addr |-> addr,
     time |-> time, buf |-> buf, off |-> off, more |-> more]

\* ftrace_send_message(): the message goes down the pipe unless pfd < 0; the
\* recorder then has a REC_END to handle
ftrace_send_message(w, type, buf, payload) ==
    IF conf.pfd < 0 THEN w
    ELSE [w EXCEPT !.hist = Append(@, Msg(type, buf, payload)),
                   !.pending = IF type = "REC_END" THEN @ \cup {buf} ELSE @]

\* the recorder's writer: having written a segment out it stores WRITTEN
\* into the flag word, which clears RECORDING
writer_thread(segs, done) ==
    [i \in Segs |-> IF i \in done THEN store_flag(segs[i], {"WRITTEN"})
                                  ELSE segs[i]]

\* the recorder running while the hook is between two of its steps
recorder_interleaves(w) ==
    IF w.env.eager
    THEN [w EXCEPT !.shm = writer_thread(w.shm, w.pending), !.pending = {}]
    ELSE w

\* what syscall(SYS_gettid) returns in the process that called the hooks
\* first, and in a child it forks
ParentTid == 1
ChildTid == 2

\* gettid(): the cached thread id, or the one the system call returns
gettid(w) == IF w.mtd.tid = 0 THEN w.os.tid ELSE w.mtd.tid

\* gettid(), line 67: the thread id is cached in mtd.tid
cache_tid(w) == [w EXCEPT !.mtd.tid = gettid(w)]

\* the name SHMEM_SESSION_FMT gives the object of ring index idx: the session
\* id, which is the same in every process of the session, a thread id and
\* the index.  by is history: the thread that created the object.
shmem_name(w, idx) == [tid |-> gettid(w), idx |-> idx, by |-> w.os.tid]

\* allocate_shmem_buffer(): shm_open(O_CREAT | O_TRUNC), ftruncate, mmap; the
\* new object is zero-filled and flagged NEW.  ok = FALSE stands for the
\* NULL it returns when one of the three fails.
allocate_shmem_buffer(w, idx) ==
    IF idx < conf.max_seg /\ w.env.allocs > 0
    THEN [ok |-> TRUE,
          w |-> [w EXCEPT
                 !.shm[idx] = [store_flag(NoSeg, {"NEW"})
                               EXCEPT !.tid = gettid(w)],
                 !.os.objs = @ \cup {shmem_name(w, idx)},
                 !.env.allocs = @ - 1]]
    ELSE [ok |-> FALSE, w |-> w]

\* prepare_shmem_buffer() once both segments are allocated (lines 172-177)
prepare_shmem_start(a0, a1) ==
    IF ~a0.ok \/ ~a1.ok
    THEN [a1.w EXCEPT !.alive = FALSE]            \* pr_err("mmap shmem buffer")
    ELSE [ftrace_send_message(a1.w, "REC_START", 0, 0) EXCEPT
          !.mtd.shmem = [nr_buf |-> 2, curr |-> 0, losts |-> @.losts],
          !.shm[0] = store_flag(@, {"RECORDING"})]

prepare_shmem_second(a0) ==
    prepare_shmem_start(a0, allocate_shmem_buffer(a0.w, 1))

\* prepare_shmem_buffer()
prepare_shmem_buffer(w) ==
    prepare_shmem_second(allocate_shmem_buffer(cache_tid(w), 0))

\* the flag is stored, not or-ed in
shmem_select_store(w, idx) ==
    [w EXCEPT !.shm[idx] = [store_flag(@, {"RECORDING"}) EXCEPT !.size = 0],
              !.mtd.shmem.curr = idx]

\* get_new_shmem_buffer(), lines 223-227: the segment becomes the current one
shmem_select(w, idx) ==
    \* __sync_fetch_and_or(&curr_buf->flag, SHMEM_FL_RECORDING)
    [w EXCEPT !.shm[idx] = [store_flag(@, @.flag \cup {"RECORDING"})
                            EXCEPT !.size = 0],
              !.mtd.shmem.curr = idx]

\* get_new_shmem_buffer(), lines 229-246: shrink unused buffers.  b is the
\* buffer the for loop looked at last, the last of the ring.
shmem_shrink(w, idx) ==
    LET nr == w.mtd.shmem.nr_buf
        count == Cardinality({i \in (idx + 1) .. (nr - 1) :
                                  w.shm[i].flag = {"WRITTEN"}})
    IN IF idx + 3 <= nr /\ count >= 3 /\ w.shm[nr - 1].flag = {"WRITTEN"}
       THEN [w EXCEPT !.mtd.shmem.nr_buf = @ - 1,
                      \* munmap(b); unmapped is history: the ring as it was
                      !.os.unmapped = @ \cup
                          {[idx |-> nr - 1, nr_buf |-> nr, curr |-> idx,
                            flags |-> [i \in 0 .. (nr - 1) |-> w.shm[i].flag]]}]
       ELSE w

\* the LOST record of lines 255-261, at the head of segment idx
lost_record(w, idx) ==
    Rec(FTRACE_LOST, w.dropped, 0, w.mtd.shmem.losts, 0, idx, 0, 0)

\* the count of lost records is reported but not reset
shmem_report_lost_keep(w, idx) ==
    IF w.mtd.shmem.losts # 0
    THEN [ftrace_send_message([w EXCEPT !.hist = Append(@, lost_record(w, idx))],
                              "LOST", idx, w.mtd.shmem.losts)
          EXCEPT !.shm[idx].size = RecSize,
                 !.dropped = 0]
    ELSE w

\* get_new_shmem_buffer(), lines 254-268
shmem_report_lost(w, idx) ==
    IF w.mtd.shmem.losts # 0
    THEN [ftrace_send_message([w EXCEPT !.hist = Append(@, lost_record(w, idx))],
                              "LOST", idx, w.mtd.shmem.losts)
          EXCEPT !.shm[idx].size = RecSize,
                 !.mtd.shmem.losts = 0,
                 !.dropped = 0]
    ELSE w

\* get_new_shmem_buffer(), from the label reuse: on
shmem_reuse(w, idx) ==
    shmem_report_lost(
        ftrace_send_message(shmem_shrink(shmem_select(w, idx), idx),
                            "REC_START", idx, 0),
        idx)

\* get_new_shmem_buffer(), lines 207-216, a being what allocation returned
shmem_extend(a, idx) ==
    IF ~a.ok
    THEN [a.w EXCEPT !.mtd.shmem.losts = @ + 1,
                     !.mtd.shmem.curr = -1]
    ELSE shmem_reuse([a.w EXCEPT !.mtd.shmem.nr_buf = @ + 1], idx)

\* the scan stops at a segment whatever its flag
shmem_free_any(w) ==
    {i \in 0 .. (w.mtd.shmem.nr_buf - 1) : i # w.mtd.shmem.curr}

\* the segments the scan of lines 189-193 may stop at
shmem_free(w) ==
    {i \in 0 .. (w.mtd.shmem.nr_buf - 1) : "RECORDING" \notin w.shm[i].flag}

\* get_new_shmem_buffer()
get_new_shmem_buffer(w) ==
    IF shmem_free(w) # {}
    THEN shmem_reuse(w, Min(shmem_free(w)))
    ELSE shmem_extend(allocate_shmem_buffer(w, w.mtd.shmem.nr_buf),
                      w.mtd.shmem.nr_buf)

\* the producer stores WRITTEN into the flag word itself
finish_shmem_buffer_marks(w, idx) ==
    [ftrace_send_message(w, "REC_END", idx, 0) EXCEPT
     !.shm[idx] = store_flag(@, {"WRITTEN"})]

\* finish_shmem_buffer()
finish_shmem_buffer(w, idx) ==
    ftrace_send_message(w, "REC_END", idx, 0)

----------------------------------------------------------------------------
(* Argument and return value payloads *)

RETVAL_IDX == 0

RECURSIVE SumSizes(_)
SumSizes(sizes) ==
    IF sizes = <<>> THEN 0 ELSE Head(sizes) + SumSizes(Tail(sizes))

\* the bytes save_to_argbuf() stores for one spec
ArgSpecSize(spec) ==
    IF spec.fmt = "STR"
    THEN ALIGN((IF spec.null THEN 4 ELSE spec.len) + 2, 4)
    ELSE ALIGN(spec.size, 4)

\* save_to_argbuf(): the total size, or -1 (-1U) when it exceeds the slot
save_to_argbuf(args_spec, is_retval) ==
    LET mine == SelectSeq(args_spec,
                          LAMBDA sp : is_retval = (sp.idx = RETVAL_IDX))
        total_size == SumSizes([i \in 1 .. Len(mine) |-> ArgSpecSize(mine[i])])
    IN IF total_size > ARGBUF_SIZE - 4 THEN -1 ELSE total_size

\* save_argument()
save_argument(w, slot, args_spec) ==
    LET size == save_to_argbuf(args_spec, FALSE)
    IN IF size = -1 THEN w
       ELSE [w EXCEPT !.mtd.argbuf[slot] = size,
                      !.mtd.rstack[slot].flags = @ \cup {"ARGUMENT"}]

\* save_retval()
save_retval(w, slot) ==
    LET size == save_to_argbuf(w.mtd.rstack[slot].pargs, TRUE)
    IN IF size = -1
       THEN [w EXCEPT !.mtd.rstack[slot].flags = @ \ {"RETVAL"}]
       ELSE [w EXCEPT !.mtd.argbuf[slot] = size]

----------------------------------------------------------------------------
(* Writing records *)

\* the bytes record_ret_stack() adds to curr_buf->size for a record whose
\* payload is payload bytes long
WrittenSize(has_payload, payload) ==
    RecSize + (IF has_payload THEN ALIGN(payload, 8) ELSE 0)

\* does the record carry the payload of its argbuf slot? (lines 436-437)
has_payload(mrstack, type) ==
    \/ type = FTRACE_ENTRY /\ "ARGUMENT" \in mrstack.flags
    \/ type = FTRACE_EXIT /\ "RETVAL" \in mrstack.flags

\* size of line 433 after lines 436-441
record_size(w, type, slot) ==
    RecSize + (IF has_payload(w.mtd.rstack[slot], type)
               THEN w.mtd.argbuf[slot] ELSE 0)

\* the test of line 443
needs_new_buffer(w, type, slot) ==
    \/ w.mtd.shmem.curr = -1
    \/ w.shm[w.mtd.shmem.curr].size + record_size(w, type, slot)
           > conf.shmem_bufsize - HdrSize

\* the record is written but its frame is not marked WRITTEN
record_write_unmarked(w, type, slot) ==
    LET mrstack == w.mtd.rstack[slot]
        curr == w.mtd.shmem.curr
        more == has_payload(mrstack, type)
    IN [ret |-> 0,
        w |-> [w EXCEPT
            !.hist = Append(@, Rec(type, mrstack.id, mrstack.depth,
                                   mrstack.child_ip,
                                   IF type = FTRACE_EXIT
                                   THEN mrstack.end_time
                                   ELSE mrstack.start_time,
                                   curr, w.shm[curr].size,
                                   IF more THEN 1 ELSE 0)),
            !.shm[curr].size = @ + WrittenSize(more, w.mtd.argbuf[slot])]]

\* record_ret_stack(), lines 456-481: the record goes into the current segment
record_write(w, type, slot) ==
    LET mrstack == w.mtd.rstack[slot]
        curr == w.mtd.shmem.curr
        more == has_payload(mrstack, type)
    IN [ret |-> 0,
        w |-> [w EXCEPT
            !.hist = Append(@, Rec(type, mrstack.id, mrstack.depth,
                                   mrstack.child_ip,
                                   IF type = FTRACE_EXIT
                                   THEN mrstack.end_time
                                   ELSE mrstack.start_time,
                                   curr, w.shm[curr].size,
                                   IF more THEN 1 ELSE 0)),
            !.shm[curr].size = @ + WrittenSize(more, w.mtd.argbuf[slot]),
            !.mtd.rstack[slot].flags = @ \cup {"WRITTEN"}]]

\* finding no segment ends the process
record_after_rotation_fatal(w, type, slot) ==
    IF w.mtd.shmem.curr = -1
    THEN [ret |-> -1, w |-> [w EXCEPT !.mtd.shmem.losts = @ + 1,
                                      !.alive = FALSE]]
    ELSE record_write(w, type, slot)

\* record_ret_stack(), lines 448-453, after get_new_shmem_buffer()
record_after_rotation(w, type, slot) ==
    IF w.mtd.shmem.curr = -1
    THEN [ret |-> -1, w |-> [w EXCEPT !.mtd.shmem.losts = @ + 1]]
    ELSE record_write(w, type, slot)

\* record_ret_stack(), lines 444-446.  The recorder may handle the REC_END
\* before the scan of get_new_shmem_buffer() starts.
record_rotate(w) ==
    get_new_shmem_buffer(
        IF w.mtd.shmem.curr > -1
        THEN recorder_interleaves(finish_shmem_buffer(w, w.mtd.shmem.curr))
        ELSE w)

\* record_ret_stack(): [ret, w]
record_ret_stack(w, type, slot) ==
    IF needs_new_buffer(w, type, slot)
    THEN record_after_rotation(record_rotate(w), type, slot)
    ELSE record_write(w, type, slot)

NotSkipped(mrstack) == mrstack.flags \cap SKIP_FLAGS = {}

\* the backward walk stops after the nearest ancestor
find_non_written_nearest(w, nw, count, size) ==
    IF nw > 0 /\ "WRITTEN" \notin w.mtd.rstack[nw - 1].flags
    THEN [nw |-> nw - 1,
          count |-> IF NotSkipped(w.mtd.rstack[nw - 1]) THEN count + 1
                    ELSE count,
          size |-> size]
    ELSE [nw |-> nw, count |-> count, size |-> size]

\* record_trace_data(), the backward walk of lines 504-523 from entry nw:
\* [nw, count, size]
RECURSIVE find_non_written(_, _, _, _)
find_non_written(w, nw, count, size) ==
    IF nw > 0 /\ "WRITTEN" \notin w.mtd.rstack[nw - 1].flags
    THEN find_non_written(w, nw - 1,
             IF NotSkipped(w.mtd.rstack[nw - 1]) THEN count + 1 ELSE count,
             IF NotSkipped(w.mtd.rstack[nw - 1])
                /\ "ARGUMENT" \in w.mtd.rstack[nw - 1].flags
             THEN size + w.mtd.argbuf[nw - 1] ELSE size)
    ELSE [nw |-> nw, count |-> count, size |-> size]

RECURSIVE emit_non_written(_, _, _, _)

\* the records after the failed one are not counted
emit_next_uncounted(r, nw, top, count) ==
    IF r.ret # 0
    THEN [failed |-> TRUE, count |-> count,
          w |-> [r.w EXCEPT !.dropped = @ + count]]
    ELSE emit_non_written(r.w, nw + 1, top, count - 1)

\* record_trace_data(), lines 536-542, r being what record_ret_stack() returned
emit_next(r, nw, top, count) ==
    IF r.ret # 0
    THEN [failed |-> TRUE, count |-> count,
          w |-> [r.w EXCEPT !.mtd.shmem.losts = @ + (count - 1),
                            !.dropped = @ + count]]
    ELSE emit_non_written(r.w, nw + 1, top, count - 1)

\* record_trace_data(), the forward walk of lines 534-545: [failed, count, w]
emit_non_written(w, nw, top, count) ==
    IF nw < top
    THEN IF NotSkipped(w.mtd.rstack[nw])
         THEN emit_next(record_ret_stack(w, FTRACE_ENTRY, nw), nw, top, count)
         ELSE emit_non_written(w, nw + 1, top, count)
    ELSE [failed |-> FALSE, count |-> count, w |-> w]

\* record_trace_data(), lines 558-565, r being what record_ret_stack() returned
trace_exit_done(r, count) ==
    IF r.ret # 0
    THEN [r.w EXCEPT !.dropped = @ + count]
    ELSE [r.w EXCEPT !.alive = @ /\ count - 1 = 0]       \* assert(count == 0)

\* record_trace_data(), lines 554-565
trace_exit(w, top, retval, count) ==
    IF w.mtd.rstack[top].end_time # 0
    THEN trace_exit_done(
             record_ret_stack(IF retval THEN save_retval(w, top) ELSE w,
                              FTRACE_EXIT, top),
             count)
    ELSE [w EXCEPT !.alive = @ /\ count = 0]             \* assert(count == 0)

\* record_trace_data(), lines 548-551, r being what record_ret_stack() returned
trace_own_done(r, top, retval, count) ==
    IF r.ret # 0
    THEN [r.w EXCEPT !.dropped = @ + count]
    ELSE trace_exit(r.w, top, retval, count - 1)

\* record_trace_data(), lines 547-565
trace_own(w, top, retval, count) ==
    IF w.mtd.rstack[top].flags \cap ({"WRITTEN"} \cup SKIP_FLAGS) = {}
    THEN trace_own_done(record_ret_stack(w, FTRACE_ENTRY, top),
                        top, retval, count)
    ELSE trace_exit(w, top, retval, count)

\* record_trace_data(), after the forward walk
trace_walked(fwd, top, retval) ==
    IF fwd.failed THEN fwd.w ELSE trace_own(fwd.w, top, retval, fwd.count)

\* count of line 527, walk being what the backward walk found
trace_count(w, top, walk) ==
    walk.count + (IF w.mtd.rstack[top].end_time # 0 THEN 1 ELSE 0)

\* the forward walk starts one entry above the one the backward walk reached
trace_forward_inner(w, top, retval, walk) ==
    trace_walked(emit_non_written(w, IF walk.nw < top - 1 THEN walk.nw + 1
                                     ELSE walk.nw,
                                  top, trace_count(w, top, walk)),
                 top, retval)

\* record_trace_data(), lines 526-545, walk being what the backward walk found
trace_forward(w, top, retval, walk) ==
    trace_walked(emit_non_written(w, walk.nw, top, trace_count(w, top, walk)),
                 top, retval)

\* record_trace_data(mtdp, &mtdp->rstack[top], retval); retval is TRUE for a
\* non-NULL pointer
record_trace_data(w, top, retval) ==
    IF top < 0 THEN w
    ELSE IF "WRITTEN" \in w.mtd.rstack[top].flags
    THEN \* non_written_mrstack stays NULL: no walk
         trace_own(w, top, retval,
                   trace_count(w, top, [nw |-> top, count |-> 0, size |-> 0]))
    ELSE trace_forward(w, top, retval,
             find_non_written(w, top,
                 IF NotSkipped(w.mtd.rstack[top]) THEN 1 ELSE 0, 0))

----------------------------------------------------------------------------
(* Filters and triggers *)

NoTrigger == [flags |-> {}, fmode |-> "NONE", depth |-> 0, pargs |-> <<>>]

\* the trigger table that ftrace_setup_filter(), ftrace_setup_trigger(),
\* ftrace_setup_argument() and ftrace_setup_retval() build in __monstartup(),
\* by function: the functions of the traced program and what is set on each
mcount_triggers ==
    [f   |-> NoTrigger,
     inc |-> [NoTrigger EXCEPT !.flags = {"FILTER"}, !.fmode = "IN"],
     exc |-> [NoTrigger EXCEPT !.flags = {"FILTER"}, !.fmode = "OUT"],
     off |-> [NoTrigger EXCEPT !.flags = {"TRACE_OFF"}],
     \* an exclude filter and a TRACE_OFF trigger set on the same function
     xoff |-> [NoTrigger EXCEPT !.flags = {"FILTER", "TRACE_OFF"},
                                !.fmode = "OUT"],
     on  |-> [NoTrigger EXCEPT !.flags = {"TRACE_ON"}],
     trc |-> [NoTrigger EXCEPT !.flags = {"TRACE"}],
     dep |-> [NoTrigger EXCEPT !.flags = {"DEPTH"}, !.depth = 1],
     rcv |-> [NoTrigger EXCEPT !.flags = {"RECOVER"}],
     arg |-> [NoTrigger EXCEPT !.flags = {"ARGUMENT"},
                 !.pargs = <<[idx |-> 1, fmt |-> "INT", size |-> 4,
                              len |-> 0, null |-> FALSE]>>],
     ret |-> [NoTrigger EXCEPT !.flags = {"RETVAL"},
                 !.pargs = <<[idx |-> RETVAL_IDX, fmt |-> "STR", size |-> 0,
                              len |-> 3, null |-> FALSE]>>]]

Funcs == DOMAIN mcount_triggers

\* ftrace_match_filter(&mcount_triggers, child, tr)
ftrace_match_filter(child) == mcount_triggers[child]

\* the test of line 687
\* the bound test off by one: a full stack passes
too_deeply_nested_off_by_one(idx) == idx > mcount_rstack_max

too_deeply_nested(idx) == idx >= mcount_rstack_max

\* a depth of zero still lets the call through
depth_exhausted_below_zero(depth) == depth < 0

\* the test of line 738
depth_exhausted(depth) == depth <= 0

\* mcount_entry_filter_check(): [res, tr, w]
mcount_entry_filter_check(w, child) ==
    IF too_deeply_nested(w.mtd.idx)
    THEN \* pr_err_ns("too deeply nested calls")
         [res |-> FILTER_OUT, tr |-> NoTrigger, w |-> [w EXCEPT !.alive = FALSE]]
    ELSE
    LET w1 == [w EXCEPT !.mtd.filter.saved_depth = w.mtd.filter.depth]
    IN IF w1.mtd.filter.out_count > 0
       THEN [res |-> FILTER_OUT, tr |-> NoTrigger, w |-> w1]
       ELSE
       LET tr == ftrace_match_filter(child)
           matched == "FILTER" \in tr.flags
           w2 == IF matched
                 THEN [w1 EXCEPT
                       !.mtd.filter.in_count =
                            IF tr.fmode = "IN" THEN @ + 1 ELSE @,
                       !.mtd.filter.out_count =
                            IF tr.fmode = "OUT" THEN @ + 1 ELSE @,
                       !.mtd.filter.depth = conf.mcount_depth]
                 ELSE w1
       IN IF ~matched /\ conf.mcount_filter_mode = "IN"
                      /\ w1.mtd.filter.in_count = 0
          THEN [res |-> FILTER_OUT, tr |-> tr, w |-> w2]
          ELSE
          LET w3 == [w2 EXCEPT
                     !.mtd.filter.depth =
                          IF "DEPTH" \in tr.flags THEN tr.depth ELSE @,
                     !.en = IF "TRACE_OFF" \in tr.flags THEN FALSE
                            ELSE IF "TRACE_ON" \in tr.flags THEN TRUE
                            ELSE @]
          IN IF ~w3.en
             THEN [res |-> FILTER_IN, tr |-> tr, w |-> w3]
             ELSE IF depth_exhausted(w3.mtd.filter.depth)
             THEN [res |-> FILTER_OUT, tr |-> tr, w |-> w3]
             ELSE [res |-> FILTER_IN, tr |-> tr,
                   w |-> [w3 EXCEPT !.mtd.filter.depth = @ - 1]]

\* the flags lines 750-774 of mcount_entry_filter_record() add to an entry
entry_flags(w, tr) ==
    (IF \/ w.mtd.filter.out_count > 0
        \/ w.mtd.filter.in_count = 0 /\ conf.mcount_filter_mode = "IN"
     THEN {"NORECORD"} ELSE {})
    \cup (IF "FILTER" \in tr.flags
          THEN (IF tr.fmode = "IN" THEN {"FILTERED"} ELSE {"NOTRACE"})
          ELSE {})
    \cup (IF "RETVAL" \in tr.flags THEN {"RETVAL"} ELSE {})
    \cup (IF "TRACE" \in tr.flags THEN {"TRACE"} ELSE {})

\* mcount_entry_filter_record(), lines 750-774
entry_mark(w, slot, tr) ==
    [w EXCEPT
     !.mtd.rstack[slot].flags = @ \cup entry_flags(w, tr),
     !.mtd.rstack[slot].filter_depth = w.mtd.filter.saved_depth,
     !.mtd.rstack[slot].pargs = IF "RETVAL" \in tr.flags THEN tr.pargs ELSE @]

\* counting only the entries made while tracing is enabled
entry_count_enabled_only(w, slot, tr) ==
    IF ~w.en
    THEN [w EXCEPT !.mtd.rstack[slot].flags = @ \cup {"DISABLED"}]
    ELSE IF "ARGUMENT" \in tr.flags
    THEN save_argument([w EXCEPT !.mtd.record_idx = @ + 1], slot, tr.pargs)
    ELSE [w EXCEPT !.mtd.record_idx = @ + 1]

\* mcount_entry_filter_record(), lines 779-786
entry_count(w, slot, tr) ==
    IF ~w.en
    THEN [w EXCEPT !.mtd.record_idx = @ + 1,
                   !.mtd.rstack[slot].flags = @ \cup {"DISABLED"}]
    ELSE IF "ARGUMENT" \in tr.flags
    THEN save_argument([w EXCEPT !.mtd.record_idx = @ + 1], slot, tr.pargs)
    ELSE [w EXCEPT !.mtd.record_idx = @ + 1]

\* line 798
cache_enabled(w) == [w EXCEPT !.mtd.enable_cached = w.en]

\* mcount_entry_filter_record(), lines 788-799
entry_flush(w, slot) ==
    IF w.mtd.enable_cached # w.en
    THEN cache_enabled(IF ~w.en THEN record_trace_data(w, slot, FALSE) ELSE w)
    ELSE w

\* mcount_restore(): every frame's return slot gets the saved address back.
\* A frame pushed by cygprof_entry() has no parent_loc: the programs of the
\* model that set RECOVER are instrumented with -pg alone.
mcount_restore(w) ==
    [w EXCEPT !.mtd.rstack =
         [s \in Slots |->
              IF s < w.mtd.idx
              THEN [w.mtd.rstack[s] EXCEPT
                    !.parent_loc = w.mtd.rstack[s].parent_ip]
              ELSE w.mtd.rstack[s]]]

\* the return slots are left as they are
mcount_reset_missing(w) == w

\* mcount_reset(): every frame's return slot gets the trampoline again
mcount_reset(w) ==
    [w EXCEPT !.mtd.rstack =
         [s \in Slots |->
              IF s < w.mtd.idx
              THEN [w.mtd.rstack[s] EXCEPT !.parent_loc = mcount_return]
              ELSE w.mtd.rstack[s]]]

\* mcount_entry_filter_record(), lines 801-805
entry_recover(w, slot, tr) ==
    IF "RECOVER" \in tr.flags
    THEN [mcount_restore(w) EXCEPT
          !.mtd.rstack[slot].parent_loc = mcount_return,
          !.mtd.rstack[slot].flags = @ \cup {"RECOVER"}]
    ELSE w

\* mcount_entry_filter_record(), lines 778-806
entry_recordable(w, slot, tr) ==
    IF "NORECORD" \in w.mtd.rstack[slot].flags THEN w
    ELSE entry_recover(entry_flush(entry_count(w, slot, tr), slot), slot, tr)

\* mcount_entry_filter_record()
mcount_entry_filter_record(w, slot, tr) ==
    entry_recordable(entry_mark(w, slot, tr), slot, tr)

\* the threshold is compared with the time of the exit, not with the duration
exit_records_end_time(mrstack) ==
    \/ mrstack.end_time > mcount_threshold
    \/ mrstack.flags \cap {"WRITTEN", "TRACE"} # {}

\* the test of lines 839-840: is the call recorded when it returns?
exit_records(mrstack) ==
    \/ mrstack.end_time - mrstack.start_time > mcount_threshold
    \/ mrstack.flags \cap {"WRITTEN", "TRACE"} # {}

\* the include count is not given back
exit_restore_keep_count(w, slot) ==
    LET mrstack == w.mtd.rstack[slot]
    IN [w EXCEPT
        !.mtd.filter.out_count =
             IF "FILTERED" \notin mrstack.flags /\ "NOTRACE" \in mrstack.flags
             THEN @ - 1 ELSE @,
        !.mtd.filter.depth = mrstack.filter_depth]

\* the depth saved in the frame is not put back
exit_restore_keep_depth(w, slot) ==
    LET mrstack == w.mtd.rstack[slot]
    IN [w EXCEPT
        !.mtd.filter.in_count =
             IF "FILTERED" \in mrstack.flags THEN @ - 1 ELSE @,
        !.mtd.filter.out_count =
             IF "FILTERED" \notin mrstack.flags /\ "NOTRACE" \in mrstack.flags
             THEN @ - 1 ELSE @]

\* mcount_exit_filter_record(), lines 818-830
exit_restore(w, slot) ==
    LET mrstack == w.mtd.rstack[slot]
    IN [w EXCEPT
        !.mtd.filter.in_count =
             IF "FILTERED" \in mrstack.flags THEN @ - 1 ELSE @,
        !.mtd.filter.out_count =
             IF "FILTERED" \notin mrstack.flags /\ "NOTRACE" \in mrstack.flags
             THEN @ - 1 ELSE @,
        !.mtd.filter.depth = mrstack.filter_depth]

\* mcount_exit_filter_record(), lines 833-834
exit_uncount(w) ==
    [w EXCEPT !.mtd.record_idx = IF @ > 0 THEN @ - 1 ELSE @]

\* mcount_exit_filter_record(), lines 832-847
exit_record(w, slot, retval) ==
    IF "NORECORD" \in w.mtd.rstack[slot].flags THEN w
    ELSE IF exit_records(w.mtd.rstack[slot]) /\ w.en
    THEN record_trace_data(exit_uncount(w), slot,
                           retval /\ "RETVAL" \in w.mtd.rstack[slot].flags)
    ELSE exit_uncount(w)

\* mcount_exit_filter_record(), lines 824-825
exit_reset(w, slot) ==
    IF "RECOVER" \in w.mtd.rstack[slot].flags THEN mcount_reset(w) ELSE w

\* mcount_exit_filter_record(); retval is TRUE for a non-NULL pointer
mcount_exit_filter_record(w, slot, retval) ==
    exit_record(exit_reset(exit_restore(w, slot), slot), slot, retval)

----------------------------------------------------------------------------
(* Thread set-up and the hooks *)

\* mcount_should_stop()
mcount_should_stop(w) == mcount_finished \/ w.mtd.recursion_guard

\* mcount_gettime()
mcount_gettime == now

\* the store into the guard is missing
set_recursion_guard_missing(w) == w

\* the first statement of a hook's body: mtd.recursion_guard = true
set_recursion_guard(w) == [w EXCEPT !.mtd.recursion_guard = TRUE]

\* mcount_prepare(), lines 662-666
prepare_thread(w) ==
    [w EXCEPT
     !.mtd.tid = gettid(w),                        \* line 658
     !.mtd.filter.depth = conf.mcount_depth,
     !.mtd.enable_cached = w.en,
     \* xmalloc(): the slots hold whatever the allocator left
     !.mtd.argbuf = [s \in Slots |-> conf.junk]]

\* mcount_prepare(), lines 671-676
prepare_done(w) ==
    IF ~w.alive THEN w
    ELSE ftrace_send_message([w EXCEPT !.tsd = TRUE], "TID", 0, 0)

\* mcount_prepare(), with mcount_init_file() run through pthread_once():
\* the thread is the process's first
mcount_prepare(w) ==
    prepare_done(
        prepare_shmem_buffer(
            ftrace_send_message(prepare_thread(w), "SESSION", 0, 0)))

\* get_thread_data() and check_thread_data(), lines 912-918
thread_data(w) == IF ~w.tsd THEN mcount_prepare(w) ELSE w

\* the entry mcount_entry() puts at rstack[idx++] (lines 929-938)
mcount_push(w, child, id) ==
    [w EXCEPT
     !.mtd.idx = @ + 1,
     !.mtd.rstack[w.mtd.idx] =
         [id |-> id, style |-> "mcount", depth |-> w.mtd.record_idx,
          \* parent_ip = *parent_loc; *parent_loc = mcount_return
          parent_loc |-> mcount_return, parent_ip |-> RetAddr(id),
          child_ip |-> child, start_time |-> mcount_gettime, end_time |-> 0,
          flags |-> {}, filter_depth |-> @.filter_depth, pargs |-> @.pargs]]

\* the entry cygprof_entry() puts at rstack[idx++] (lines 1015-1030)
cygprof_push(w, child, id, filtered) ==
    [w EXCEPT
     !.mtd.idx = @ + 1,
     !.mtd.rstack[w.mtd.idx] =
         [id |-> id, style |-> "cyg", depth |-> w.mtd.record_idx,
          \* the return slot is not touched
          parent_loc |-> RetAddr(id), parent_ip |-> RetAddr(id),
          child_ip |-> child,
          start_time |-> IF filtered = FILTER_IN THEN mcount_gettime ELSE 0,
          end_time |-> 0,
          flags |-> IF filtered = FILTER_IN THEN {} ELSE {"NORECORD"},
          filter_depth |-> @.filter_depth, pargs |-> @.pargs]]

\* the end of an exit hook: mtdp->idx--.  The slot left above idx is cleared
\* in the model; the code leaves it and never reads it again.
rstack_pop(w) ==
    [w EXCEPT !.mtd.idx = @ - 1,
              !.mtd.rstack[w.mtd.idx - 1] = NoEntry]

Returned(w, op, ret, e) ==
    [w EXCEPT !.last = [op |-> op, ret |-> ret, e |-> e]]

\* mcount_entry(), lines 943-945
mcount_entry_done(w, slot) ==
    Returned([w EXCEPT !.mtd.recursion_guard = FALSE],
             "mcount_entry", 0, w.mtd.rstack[slot])

\* mcount_entry(), lines 921-945, chk being what the filter check returned
mcount_entry_filtered(chk, child, id) ==
    IF ~chk.w.alive THEN Returned(chk.w, "abort", 0, NoEntry)
    ELSE IF chk.res = FILTER_OUT
    THEN Returned([chk.w EXCEPT !.mtd.recursion_guard = FALSE],
                  "mcount_entry", -1, NoEntry)
    ELSE mcount_entry_done(
             mcount_entry_filter_record(mcount_push(chk.w, child, id),
                                        chk.w.mtd.idx, chk.tr),
             chk.w.mtd.idx)

\* mcount_entry(), lines 920-945
mcount_entry_checked(w, child, id) ==
    IF ~w.alive THEN Returned(w, "abort", 0, NoEntry)
    ELSE mcount_entry_filtered(mcount_entry_filter_check(w, child), child, id)

\* mcount_entry() after mcount_should_stop() let it pass
mcount_entry_body(w, child, id) ==
    mcount_entry_checked(thread_data(set_recursion_guard(w)), child, id)

\* mcount_entry()
mcount_entry(w, child, id) ==
    IF mcount_should_stop(w)
    THEN Returned(w, "mcount_entry", -1, NoEntry)
    ELSE mcount_entry_body(w, child, id)

\* an exit hook, lines 964-971 and 1062-1065, e being the entry it popped as
\* it was before the exit filter ran
exit_done(w, op, e) ==
    Returned([rstack_pop(w) EXCEPT !.mtd.recursion_guard = FALSE], op,
             \* mcount_exit() returns retaddr, line 963
             IF op = "mcount_exit"
             THEN w.mtd.rstack[w.mtd.idx - 1].parent_ip ELSE 0,
             e)

\* mcount_exit(), lines 961-971
mcount_exit_timed(w, slot) ==
    exit_done(mcount_exit_filter_record(w, slot, TRUE),
              "mcount_exit", w.mtd.rstack[slot])

\* mcount_exit(), lines 957-961
mcount_exit_top(w) ==
    mcount_exit_timed(
        [w EXCEPT !.mtd.rstack[w.mtd.idx - 1].end_time = mcount_gettime],
        w.mtd.idx - 1)

\* mcount_exit()
mcount_exit(w) == mcount_exit_top(set_recursion_guard(w))

\* cygprof_entry(), lines 1032-1034
cygprof_entry_done(w, slot) ==
    Returned([w EXCEPT !.mtd.recursion_guard = FALSE],
             "cygprof_entry", 0, w.mtd.rstack[slot])

\* cygprof_entry(), lines 1015-1034, chk being what the filter check returned
cygprof_entry_filtered(chk, child, id) ==
    IF ~chk.w.alive THEN Returned(chk.w, "abort", 0, NoEntry)
    ELSE cygprof_entry_done(
             mcount_entry_filter_record(
                 cygprof_push(chk.w, child, id, chk.res),
                 chk.w.mtd.idx, chk.tr),
             chk.w.mtd.idx)

\* cygprof_entry(), lines 1013-1034
cygprof_entry_checked(w, child, id) ==
    IF ~w.alive THEN Returned(w, "abort", 0, NoEntry)
    ELSE cygprof_entry_filtered(mcount_entry_filter_check(w, child), child, id)

\* cygprof_entry() after mcount_should_stop() let it pass
cygprof_entry_body(w, child, id) ==
    cygprof_entry_checked(thread_data(set_recursion_guard(w)), child, id)

\* cygprof_entry()
cygprof_entry(w, child, id) ==
    IF mcount_should_stop(w)
    THEN Returned(w, "cygprof_entry", -1, NoEntry)
    ELSE cygprof_entry_body(w, child, id)

\* cygprof_exit(), lines 1060-1065
cygprof_exit_timed(w, slot) ==
    exit_done(mcount_exit_filter_record(w, slot, FALSE),
              "cygprof_exit", w.mtd.rstack[slot])

\* cygprof_exit(), lines 1055-1058
cygprof_exit_top(w) ==
    IF ~w.alive THEN Returned(w, "abort", 0, NoEntry)
    ELSE cygprof_exit_timed(
             IF "NORECORD" \notin w.mtd.rstack[w.mtd.idx - 1].flags
             THEN [w EXCEPT
                   !.mtd.rstack[w.mtd.idx - 1].end_time = mcount_gettime]
             ELSE w,
             w.mtd.idx - 1)

\* cygprof_exit() after mcount_should_stop() let it pass
cygprof_exit_body(w) ==
    cygprof_exit_top(thread_data(set_recursion_guard(w)))

\* cygprof_exit()
cygprof_exit(w) ==
    IF mcount_should_stop(w)
    THEN Returned(w, "cygprof_exit", -1, NoEntry)
    ELSE cygprof_exit_body(w)

----------------------------------------------------------------------------
(* The traced program, the state machine *)

\* what the environment may decide during one hook
Envs == [allocs : 0 .. 2, eager : BOOLEAN]

World(env) ==
    [mtd |-> mtd, tsd |-> tsd, shm |-> shm, en |-> mcount_enabled,
     pending |-> pending, hist |-> hist, dropped |-> dropped,
     alive |-> alive, last |-> last, os |-> os, env |-> env]

Commit(w) ==
    /\ mtd' = w.mtd
    /\ tsd' = w.tsd
    /\ shm' = w.shm
    /\ mcount_enabled' = w.en
    /\ pending' = w.pending
    /\ hist' = w.hist
    /\ dropped' = w.dropped
    /\ alive' = w.alive
    /\ last' = w.last
    /\ os' = w.os

\* the configurations and traced programs explored.  funcs are the
\* functions the program calls, each with the way it was instrumented.
\* BigBuf holds every record a run can write, each with a payload
BigBuf == HdrSize + 2 * MaxCalls * (RecSize + 8)
Styles == {"mcount", "cyg"}

DefaultConf ==
    [mcount_filter_mode |-> "NONE", mcount_depth |-> MaxStack + 2,
     max_stack |-> MaxStack, max_seg |-> MaxSeg,
     max_calls |-> MaxCalls, shmem_bufsize |-> BigBuf,
     pfd |-> 3,
     enabled |-> TRUE, junk |-> 0, funcs |-> {}]

\* a program whose functions fns are all instrumented in each style of sts
Calls(sts, fns) == sts \X fns

\* forced records and argument payloads
ProgBase ==
    {[DefaultConf EXCEPT !.funcs = Calls({st}, {"f", "trc"})] : st \in Styles}
    \cup
    {[DefaultConf EXCEPT !.funcs = Calls({"mcount"}, {"f", "arg"}),
                         !.shmem_bufsize = HdrSize + 2 * RecSize + 4]}

\* tracing switched off and on, started enabled or with FTRACE_DISABLED
ProgTrace ==
    {[DefaultConf EXCEPT !.funcs = Calls(Styles, {"off", "on"}),
                         !.enabled = en] : en \in BOOLEAN}

\* include and exclude filters, a depth limit
ProgFilter ==
    {[DefaultConf EXCEPT !.funcs = Calls(Styles, {"f", "inc"}),
                         !.mcount_filter_mode = "IN"],
     [DefaultConf EXCEPT !.funcs = Calls(Styles, {"f", "exc"}),
                         !.mcount_filter_mode = "OUT"],
     [DefaultConf EXCEPT !.funcs = Calls(Styles, {"f", "dep"}),
                         !.mcount_depth = 1]}

\* buffers one record wide: rotation, exhaustion and LOST reports
ProgRing ==
    {[DefaultConf EXCEPT !.funcs = Calls(Styles, {"f"}),
                         !.shmem_bufsize = HdrSize + RecSize]}

\* a stack one frame deeper: a forced record below two unwritten ancestors
ProgDeep ==
    {[DefaultConf EXCEPT !.funcs = Calls({"mcount"}, {"f", "trc"}),
                         !.max_stack = MaxStack + 1]}

\* tracing switched off by a function that is excluded itself
ProgSwitch ==
    {[DefaultConf EXCEPT !.funcs = Calls({"mcount"}, {"f", "xoff"}),
                         !.mcount_filter_mode = "OUT"]}

\* calls whose trigger has the return addresses restored while they run
ProgRecover ==
    {[DefaultConf EXCEPT !.funcs = Calls({"mcount"}, {"f", "rcv"}),
                         !.max_stack = MaxStack + 1]}

\* include and exclude filters and a depth trigger nested in each other
ProgNest ==
    {[DefaultConf EXCEPT !.funcs = Calls(Styles, {"inc", "exc", "dep"}),
                         !.mcount_filter_mode = "IN",
                         !.mcount_depth = 2,
                         !.max_stack = MaxStack + 1]}

\* a depth limit of one and the triggers that switch tracing off and on
ProgShallow ==
    {[DefaultConf EXCEPT !.funcs = Calls({"mcount"}, {"f", "off", "on"}),
                         !.mcount_depth = 1]}

\* buffers one record wide and forced records: a flush that finds no segment
\* for the ENTRY of an ancestor
ProgWalk ==
    {[DefaultConf EXCEPT !.funcs = Calls({"mcount"}, {"f", "trc"}),
                         !.shmem_bufsize = HdrSize + RecSize]}

Programs ==
    ProgBase \cup ProgTrace \cup ProgFilter \cup ProgRing \cup ProgDeep
        \cup ProgSwitch \cup ProgRecover \cup ProgWalk \cup ProgNest
        \cup ProgShallow

ZeroMtd ==
    [tid |-> 0, recursion_guard |-> FALSE, idx |-> 0, record_idx |-> 0,
     rstack |-> [s \in Slots |-> NoEntry],
     argbuf |-> [s \in Slots |-> 0],
     filter |-> [depth |-> 0, in_count |-> 0, out_count |-> 0,
                 saved_depth |-> 0],
     enable_cached |-> FALSE,
     shmem |-> [nr_buf |-> 0, curr |-> 0, losts |-> 0]]

NoLast == [op |-> "none", ret |-> 0, e |-> NoEntry]

\* the thread runs the program's own code
Idle == [hook |-> "idle", child |-> "none"]

InitWith(programs) ==
    /\ conf \in programs
    /\ mtd = ZeroMtd
    /\ tsd = FALSE
    /\ shm = [i \in Segs |-> NoSeg]
    /\ mcount_enabled = conf.enabled
    /\ mcount_finished = FALSE
    /\ now = 1
    /\ pc = Idle
    /\ alive = TRUE
    /\ pending = {}
    /\ hist = <<>>
    /\ dropped = 0
    /\ ncalls = 0
    /\ calls = <<>>
    /\ nested = 0
    /\ last = NoLast
    /\ os = [tid |-> ParentTid, objs |-> {}, unmapped |-> {}]

Init == InitWith(Programs)

\* the calls in flight: the ids of rstack[0 .. idx-1]
InFlight == {mtd.rstack[s].id : s \in 0 .. (mtd.idx - 1)}

\* the filter state mcount_entry_filter_check() finds: that of the thread,
\* which mcount_prepare() sets up first if the hook is the thread's first
FilterAtEntry ==
    IF tsd THEN [depth |-> mtd.filter.depth, in_count |-> mtd.filter.in_count,
                 out_count |-> mtd.filter.out_count]
    ELSE [depth |-> conf.mcount_depth, in_count |-> 0, out_count |-> 0]

\* history of an entry hook: the function called, the call's ancestors,
\* whether the entry it pushed was marked DISABLED, and the filter state and
\* the enabled flag the hook found
NoteCall(child) ==
    /\ ncalls' = ncalls + 1
    /\ calls' = Append(calls, [child |-> child, anc |-> InFlight,
                               disabled |-> "DISABLED" \in last'.e.flags,
                               filter |-> FilterAtEntry,
                               en |-> mcount_enabled])

\* the program calls a function instrumented with -pg
CallMcountEntry ==
    /\ alive /\ pc = Idle /\ ncalls < conf.max_calls
    /\ \E child \in Funcs, env \in Envs :
          /\ <<"mcount", child>> \in conf.funcs
          /\ Commit(mcount_entry(World(env), child, ncalls + 1))
          /\ NoteCall(child)
    /\ UNCHANGED <<conf, mcount_finished, now, pc, nested>>

\* a function whose return address was hijacked returns into mcount_return
CallMcountExit ==
    /\ alive /\ pc = Idle
    /\ mtd.idx > 0 /\ mtd.rstack[mtd.idx - 1].style = "mcount"
    /\ \E env \in Envs : Commit(mcount_exit(World(env)))
    /\ UNCHANGED <<conf, mcount_finished, now, pc, ncalls, calls, nested>>

\* the program calls a function instrumented with -finstrument-functions
CallCygEntry ==
    /\ alive /\ pc = Idle /\ ncalls < conf.max_calls
    /\ \E child \in Funcs, env \in Envs :
          /\ <<"cyg", child>> \in conf.funcs
          /\ Commit(cygprof_entry(World(env), child, ncalls + 1))
          /\ NoteCall(child)
    /\ UNCHANGED <<conf, mcount_finished, now, pc, nested>>

\* such a function returns
CallCygExit ==
    /\ alive /\ pc = Idle
    /\ mtd.idx > 0 /\ mtd.rstack[mtd.idx - 1].style = "cyg"
    /\ \E env \in Envs : Commit(cygprof_exit(World(env)))
    /\ UNCHANGED <<conf, mcount_finished, now, pc, ncalls, calls, nested>>

\* time passes
Tick ==
    /\ alive /\ pc = Idle /\ now <= MaxTime
    /\ now' = now + 1
    /\ UNCHANGED <<conf, mtd, tsd, shm, mcount_enabled, mcount_finished, pc,
                   alive, pending, hist, dropped, ncalls, calls, nested, last,
                   os>>

\* the recorder handles the REC_END of segment i
Recorder ==
    /\ alive
    /\ \E i \in pending :
          /\ shm' = writer_thread(shm, {i})
          /\ pending' = pending \ {i}
    /\ UNCHANGED <<conf, mtd, tsd, mcount_enabled, mcount_finished, now, pc,
                   alive, hist, dropped, ncalls, calls, nested, last, os>>

Next ==
    \/ CallMcountEntry
    \/ CallMcountExit
    \/ CallCygEntry
    \/ CallCygExit
    \/ Tick
    \/ Recorder

Spec == Init /\ [][Next]_vars

----------------------------------------------------------------------------
(* Re-entrancy.  A hook that is taken in two steps: its first lines, up to
   the store into recursion_guard, and the rest of its body.  In between,
   the allocator the body calls (xmalloc in mcount_prepare, the realloc of
   get_new_shmem_buffer) may be the program's own, instrumented one, and
   call the hooks again on the same thread. *)

ProgReent ==
    {[DefaultConf EXCEPT !.funcs = Calls(Styles, {"f"}),
                         !.shmem_bufsize = HdrSize + 2 * RecSize]}

InitReent == InitWith(ProgReent)

\* lines 906-909, 999-1002 and 1042-1045: mcount_should_stop(), then the guard
hook_enter(w, op) ==
    IF mcount_should_stop(w) THEN Returned(w, op, -1, NoEntry)
    ELSE set_recursion_guard(w)

\* the thread enters an entry hook or cygprof_exit()
EnterHook ==
    /\ alive /\ pc = Idle
    /\ \E op \in {"mcount_entry", "cygprof_entry", "cygprof_exit"},
          st \in Styles, child \in Funcs, env \in Envs :
          /\ <<st, child>> \in conf.funcs
          /\ op = "mcount_entry" => st = "mcount" /\ ncalls < conf.max_calls
          /\ op = "cygprof_entry" => st = "cyg" /\ ncalls < conf.max_calls
          /\ op = "cygprof_exit" =>
                /\ st = "cyg" /\ mtd.idx > 0
                /\ mtd.rstack[mtd.idx - 1].style = "cyg"
                /\ mtd.rstack[mtd.idx - 1].child_ip = child
          /\ Commit(hook_enter(World(env), op))
          /\ pc' = IF mcount_should_stop(World(env)) THEN Idle
                   ELSE [hook |-> op, child |-> child]
    /\ UNCHANGED <<conf, mcount_finished, now, ncalls, calls, nested>>

\* the thread enters mcount_exit(), lines 954-957
EnterMcountExit ==
    /\ alive /\ pc = Idle
    /\ mtd.idx > 0 /\ mtd.rstack[mtd.idx - 1].style = "mcount"
    /\ \E env \in Envs : Commit(set_recursion_guard(World(env)))
    /\ pc' = [hook |-> "mcount_exit", child |-> "none"]
    /\ UNCHANGED <<conf, mcount_finished, now, ncalls, calls, nested>>

\* the rest of mcount_entry(), lines 911-945
FinishMcountEntry ==
    /\ alive /\ pc.hook = "mcount_entry"
    /\ \E env \in Envs :
          Commit(mcount_entry_checked(thread_data(World(env)), pc.child,
                                      ncalls + 1))
    /\ NoteCall(pc.child)
    /\ pc' = Idle
    /\ UNCHANGED <<conf, mcount_finished, now, nested>>

\* the rest of cygprof_entry(), lines 1006-1034
FinishCygEntry ==
    /\ alive /\ pc.hook = "cygprof_entry"
    /\ \E env \in Envs :
          Commit(cygprof_entry_checked(thread_data(World(env)), pc.child,
                                       ncalls + 1))
    /\ NoteCall(pc.child)
    /\ pc' = Idle
    /\ UNCHANGED <<conf, mcount_finished, now, nested>>

\* the rest of mcount_exit(), lines 959-971
FinishMcountExit ==
    /\ alive /\ pc.hook = "mcount_exit"
    /\ \E env \in Envs : Commit(mcount_exit_top(World(env)))
    /\ pc' = Idle
    /\ UNCHANGED <<conf, mcount_finished, now, ncalls, calls, nested>>

\* the rest of cygprof_exit(), lines 1047-1065
FinishCygExit ==
    /\ alive /\ pc.hook = "cygprof_exit"
    /\ \E env \in Envs : Commit(cygprof_exit_top(thread_data(World(env))))
    /\ pc' = Idle
    /\ UNCHANGED <<conf, mcount_finished, now, ncalls, calls, nested>>

\* code called from inside the hook calls mcount_entry()
NestedMcountEntry ==
    /\ alive /\ pc # Idle /\ nested < MaxNested
    /\ \E child \in Funcs, env \in Envs :
          /\ <<"mcount", child>> \in conf.funcs
          /\ Commit(mcount_entry(World(env), child, 0))
    /\ nested' = nested + 1
    /\ UNCHANGED <<conf, mcount_finished, now, pc, ncalls, calls>>

\* code called from inside the hook calls cygprof_entry()
NestedCygEntry ==
    /\ alive /\ pc # Idle /\ nested < MaxNested
    /\ \E child \in Funcs, env \in Envs :
          /\ <<"cyg", child>> \in conf.funcs
          /\ Commit(cygprof_entry(World(env), child, 0))
    /\ nested' = nested + 1
    /\ UNCHANGED <<conf, mcount_finished, now, pc, ncalls, calls>>

\* code called from inside the hook calls cygprof_exit().  Were the guard
\* clear with no frame on the stack, the hook would read rstack[-1]; the
\* model leaves that call out.
NestedCygExit ==
    /\ alive /\ pc # Idle /\ nested < MaxNested
    /\ mtd.recursion_guard \/ mtd.idx > 0
    /\ \E env \in Envs : Commit(cygprof_exit(World(env)))
    /\ nested' = nested + 1
    /\ UNCHANGED <<conf, mcount_finished, now, pc, ncalls, calls>>

NextReent ==
    \/ EnterHook
    \/ EnterMcountExit
    \/ FinishMcountEntry
    \/ FinishCygEntry
    \/ FinishMcountExit
    \/ FinishCygExit
    \/ NestedMcountEntry
    \/ NestedCygEntry
    \/ NestedCygExit
    \/ Tick
    \/ Recorder

SpecReent == InitReent /\ [][NextReent]_vars

----------------------------------------------------------------------------
(* fork().  The handlers registered with pthread_atfork() in __monstartup()
   run on the thread that calls fork(): the prepare handler in the parent
   before the fork, the child handler in the child.  The model goes on in
   the child; what the parent does after fork() is what it does in a
   behaviour without the fork. *)

\* atfork_prepare_handler()
atfork_prepare_handler(w) == ftrace_send_message(w, "FORK_START", 0, w.os.tid)

\* fork() returns in the child: the thread has a new id, and the REC_END
\* messages the recorder has yet to handle are about the parent's objects
fork(w) == [w EXCEPT !.os.tid = ChildTid, !.pending = {}]

\* the cached thread id is kept
forget_tid_missing(w) == w

\* atfork_child_handler(), line 1095: mtd.tid = 0
forget_tid(w) == [w EXCEPT !.mtd.tid = 0]

\* clear_shmem_buffer(): the mappings are dropped, the objects stay
clear_shmem_buffer(w) ==
    [w EXCEPT !.shm = [i \in Segs |-> NoSeg],
              !.mtd.shmem.nr_buf = 0]

\* atfork_child_handler(), lines 1095-1098
child_ring(w) ==
    IF ~w.alive THEN w
    ELSE prepare_shmem_buffer(clear_shmem_buffer(forget_tid(w)))

\* atfork_child_handler(), line 1100
fork_end(w) ==
    IF ~w.alive THEN w
    ELSE ftrace_send_message(w, "FORK_END", 0, w.os.tid)

\* atfork_child_handler()
atfork_child_handler(w) == fork_end(child_ring(thread_data(w)))

\* a ring one record wide in the parent and in the child, every call
\* recorded
ProgFork ==
    {[DefaultConf EXCEPT !.funcs = Calls({"mcount"}, {"trc"}),
                         !.shmem_bufsize = HdrSize + RecSize]}

InitFork == InitWith(ProgFork)

\* the allocations that succeed during fork(): none, those of one
\* prepare_shmem_buffer(), those of two
ForkEnvs == [allocs : {0, 2, 4}, eager : {FALSE}]

\* the program calls fork()
Fork ==
    /\ alive /\ pc = Idle /\ os.tid = ParentTid
    /\ \E env \in ForkEnvs :
          Commit(atfork_child_handler(
                     fork(atfork_prepare_handler(World(env)))))
    /\ UNCHANGED <<conf, mcount_finished, now, pc, ncalls, calls, nested>>

\* every call being recorded whatever its duration, the clock stands still
\* buffers one record wide, forced records and room for five segments: a
\* ring long enough for get_new_shmem_buffer() to shrink it
ProgShrink ==
    {[DefaultConf EXCEPT !.funcs = Calls({"mcount"}, {"trc"}),
                         !.shmem_bufsize = HdrSize + RecSize,
                         !.max_seg = MaxSeg + 2,
                         !.max_calls = MaxCalls + 1]}

InitShrink == InitWith(ProgShrink)

NextShrink ==
    \/ CallMcountEntry
    \/ CallMcountExit
    \/ Recorder

SpecShrink == InitShrink /\ [][NextShrink]_vars

----------------------------------------------------------------------------
(* Teardown.  _mcleanup() and the destructor mcount_fini() call
   mcount_finish() when the process exits, whatever frames are in flight;
   these frames never return.  Entry hooks may still be called afterwards
   (by the destructors of other objects) and find mcount_finished set. *)

\* shmem_finish(), lines 302-309: REC_END for each segment from i on whose
\* flag has RECORDING set
RECURSIVE shmem_finish_from(_, _)
shmem_finish_from(w, i) ==
    IF i >= w.mtd.shmem.nr_buf THEN w
    ELSE shmem_finish_from(IF "RECORDING" \in w.shm[i].flag
                           THEN finish_shmem_buffer(w, i) ELSE w,
                           i + 1)

\* shmem_finish()
shmem_finish(w) == clear_shmem_buffer(shmem_finish_from(w, 0))

\* mtd_dtor(): the stack and the argument buffer are freed, the ring finished
mtd_dtor(w) == shmem_finish(w)

\* one-record buffers, calls that are recorded when they return
ProgFinish ==
    {[DefaultConf EXCEPT !.funcs = Calls({"mcount"}, {"trc"}),
                         !.shmem_bufsize = HdrSize + RecSize]}

InitFinish == InitWith(ProgFinish)

\* mcount_finish(), lines 974-987
McountFinish ==
    /\ alive /\ pc = Idle /\ ~mcount_finished
    /\ \E env \in Envs : Commit(mtd_dtor(World(env)))
    /\ mcount_finished' = TRUE
    /\ UNCHANGED <<conf, now, pc, ncalls, calls, nested>>

\* a function returns while the process has not exited
ReturnBeforeFinish == ~mcount_finished /\ CallMcountExit

NextFinish ==
    \/ CallMcountEntry
    \/ ReturnBeforeFinish
    \/ Recorder
    \/ McountFinish

SpecFinish == InitFinish /\ [][NextFinish]_vars

NextFork ==
    \/ CallMcountEntry
    \/ CallMcountExit
    \/ Recorder
    \/ Fork

SpecFork == InitFork /\ [][NextFork]_vars

----------------------------------------------------------------------------
(* Properties *)

\* an entry hook is about to run its body
EntryHookRuns == ncalls' # ncalls /\ ~mcount_finished /\ ~mtd.recursion_guard

RecordedBelow(s) ==
    {t \in 0 .. (s - 1) : "NORECORD" \notin mtd.rstack[t].flags}

\* C2: record_idx is the number of frames in rstack[0 .. idx-1] that are not
\* NORECORD, and the depth of each frame is the number of such frames below it
C2_RecordIdxCountsRecorded ==
    /\ mtd.record_idx = Cardinality(RecordedBelow(mtd.idx))
    /\ \A s \in 0 .. (mtd.idx - 1) :
          mtd.rstack[s].depth = Cardinality(RecordedBelow(s))

\* a recorded frame sits on top of a NORECORD frame
C2_Witness ==
    /\ mtd.idx = 2 /\ mtd.record_idx = 1
    /\ "NORECORD" \in mtd.rstack[0].flags
    /\ "NORECORD" \notin mtd.rstack[1].flags

\* the positions in the emitted stream of the records of one type
Recs(type) ==
    {i \in 1 .. Len(hist) : hist[i].k = "rec" /\ hist[i].type = type}

\* C3: the emitted records nest: every EXIT comes after an ENTRY of the same
\* call, and no call's ENTRY comes before the ENTRY of an ancestor that is
\* recorded too
C3_WellFormedNesting ==
    /\ \A j \in Recs(FTRACE_EXIT) :
          \E i \in Recs(FTRACE_ENTRY) : i < j /\ hist[i].id = hist[j].id
    /\ \A i, j \in Recs(FTRACE_ENTRY) :
          hist[j].id \in calls[hist[i].id].anc => j < i

\* C4: no call has two ENTRY records or two EXIT records in the stream
C4_NoDuplicateRecords ==
    \A type \in {FTRACE_ENTRY, FTRACE_EXIT} :
       \A i, j \in Recs(type) : hist[i].id = hist[j].id => i = j

\* a call's ENTRY was flushed before its exit: a descendant's records lie
\* between its ENTRY and its EXIT
C4_Witness ==
    \E i \in Recs(FTRACE_ENTRY), k \in Recs(FTRACE_EXIT) :
       /\ hist[i].id = hist[k].id
       /\ \E j \in Recs(FTRACE_EXIT) :
             i < j /\ j < k /\ hist[k].id \in calls[hist[j].id].anc

\* C5: every record lies inside one buffer: no segment's size exceeds the
\* data capacity, the configured buffer size minus the header
C5_RecordsInsideBuffer ==
    \A i \in Segs : shm[i].size <= conf.shmem_bufsize - HdrSize

\* the stores into the flag word of segment i, as pairs <<before, after>>
FlagSteps(i) ==
    {<<shm[i].trail[k], shm[i].trail[k + 1]>> :
         k \in 1 .. (Len(shm[i].trail) - 1)}

\* C6 as claimed: a flag word is NEW, RECORDING or WRITTEN, starting at NEW,
\* and changes only NEW->RECORDING, RECORDING->WRITTEN, WRITTEN->RECORDING
C6_FlagTransitions ==
    \A i \in Segs :
       /\ shm[i].trail # <<>> => shm[i].trail[1] = {"NEW"}
       /\ FlagSteps(i) \subseteq {<<{"NEW"}, {"RECORDING"}>>,
                                  <<{"RECORDING"}, {"WRITTEN"}>>,
                                  <<{"WRITTEN"}, {"RECORDING"}>>}

\* C6 amended: the producer or-s RECORDING into the flag word when rotation
\* selects a segment, so the word keeps the NEW or WRITTEN bit beside it:
\* a segment starts at NEW and its flag word changes only NEW->RECORDING
\* (segment 0, when the thread's buffers are prepared), NEW->NEW|RECORDING
\* (first selection by rotation), WRITTEN->WRITTEN|RECORDING (reuse), and
\* from each of the three values with RECORDING to WRITTEN (the recorder)
C6_FlagTransitionsKeepBits ==
    \A i \in Segs :
       /\ shm[i].trail # <<>> => shm[i].trail[1] = {"NEW"}
       /\ FlagSteps(i) \subseteq
             {<<{"NEW"}, IF i = 0 THEN {"RECORDING"}
                                  ELSE {"NEW", "RECORDING"}>>,
              <<{"WRITTEN"}, {"WRITTEN", "RECORDING"}>>,
              <<{"RECORDING"}, {"WRITTEN"}>>,
              <<{"NEW", "RECORDING"}, {"WRITTEN"}>>,
              <<{"WRITTEN", "RECORDING"}, {"WRITTEN"}>>}

\* a segment the recorder had written out was selected again, and the
\* recorder wrote it out once more
C6_Witness ==
    \E i \in Segs :
       /\ <<{"WRITTEN"}, {"WRITTEN", "RECORDING"}>> \in FlagSteps(i)
       /\ <<{"WRITTEN", "RECORDING"}, {"WRITTEN"}>> \in FlagSteps(i)

\* C7: a LOST record is the first record of a segment that rotation has just
\* selected (it sits at offset 0 right behind the REC_START of that segment,
\* so there is one per selection at most), its time is 0 and its addr is the
\* value losts had, which is not 0; while a segment is current, losts is 0
C7_LostAtBufferHead ==
    /\ [](\A i \in Recs(FTRACE_LOST) :
             /\ hist[i].off = 0 /\ hist[i].time = 0 /\ hist[i].addr > 0
             /\ i > 1 /\ hist[i - 1] = Msg("REC_START", hist[i].buf, 0))
    /\ []((tsd /\ mtd.shmem.curr >= 0) => mtd.shmem.losts = 0)
    /\ [][\A i \in (Len(hist) + 1) .. Len(hist') :
             (hist'[i].k = "rec" /\ hist'[i].type = FTRACE_LOST)
                 => hist'[i].addr = mtd.shmem.losts]_vars

\* a LOST record heads a segment and the record whose rotation selected the
\* segment follows it
C7_Witness ==
    \E i \in Recs(FTRACE_LOST), j \in Recs(FTRACE_EXIT) :
       /\ i < j /\ hist[j].buf = hist[i].buf /\ hist[j].off = RecSize
       /\ mtd.shmem.curr = hist[i].buf

\* C8: the addr of a LOST record, and the payload of the LOST message that
\* follows it, is the number of ENTRY and EXIT records dropped since the
\* last LOST report
C8_LostCountExact ==
    \A i \in Recs(FTRACE_LOST) :
       /\ hist[i].addr = hist[i].id
       /\ i < Len(hist) /\ hist[i + 1] = Msg("LOST", hist[i].buf, hist[i].id)

\* the last hook was an exit hook that popped a frame
ExitHookRan == last.op \in {"mcount_exit", "cygprof_exit"} /\ last.e.id > 0

\* the call that just exited took less than the threshold
BelowThreshold == last.e.end_time - last.e.start_time < mcount_threshold

\* C10: a call that exits after less than the threshold, without the TRACE
\* flag and without a WRITTEN flag set by a descendant's flush, has neither
\* an ENTRY nor an EXIT record in the stream
C10_ShortCallNotEmitted ==
    (/\ ExitHookRan /\ BelowThreshold
     /\ last.e.flags \cap {"TRACE", "WRITTEN"} = {})
        => \A i \in Recs(FTRACE_ENTRY) \cup Recs(FTRACE_EXIT) :
              hist[i].id # last.e.id

\* a recordable call made with tracing enabled exited below the threshold,
\* while a longer call before it was recorded
C10_Witness ==
    /\ ExitHookRan /\ BelowThreshold
    /\ last.e.flags = {} /\ mcount_enabled
    /\ Recs(FTRACE_EXIT) # {}

\* the hooks the thread can be re-entered through
GuardedHooks == {"mcount_entry", "cygprof_entry", "cygprof_exit"}

\* C9: between the first lines of a hook and the end of its body, thread
\* initialization included, recursion_guard is set; and a hook called on the
\* thread meanwhile returns at once (-1), leaving idx, record_idx, rstack,
\* the filter state and the shmem state as they were and emitting neither a
\* record nor a message
C9_GuardedHooksAreNoOps ==
    /\ [](pc # Idle => mtd.recursion_guard)
    /\ [][nested' # nested =>
             /\ last'.op \in GuardedHooks /\ last'.ret = -1
             /\ mtd' = mtd /\ tsd' = tsd /\ shm' = shm /\ hist' = hist
             /\ pending' = pending /\ mcount_enabled' = mcount_enabled
             /\ alive' = alive]_vars

\* an entry hook was called from inside the thread's first hook, before the
\* thread's data was set up, and returned -1
C9_Witness ==
    /\ pc.hook \in GuardedHooks /\ ~tsd /\ nested > 0
    /\ last.op \in {"mcount_entry", "cygprof_entry"} /\ last.ret = -1

\* an exit hook pops the frame Top
ExitStep == mtd'.idx = mtd.idx - 1
Top == mtd.rstack[mtd.idx - 1]

\* the ENTRY and EXIT records a step appends to the stream, as <<type, id>>
NewRecs ==
    LET new == SelectSeq(SubSeq(hist', Len(hist) + 1, Len(hist')),
                         LAMBDA r : r.k = "rec" /\ r.type # FTRACE_LOST)
    IN [i \in 1 .. Len(new) |-> <<new[i].type, new[i].id>>]

\* the ENTRY records that are due for the frames of slots s .. top-1: those
\* of the frames that are recordable and not written, outermost first
RECURSIVE EntriesDue(_, _)
EntriesDue(s, top) ==
    IF s >= top THEN <<>>
    ELSE (IF NotSkipped(mtd.rstack[s]) /\ "WRITTEN" \notin mtd.rstack[s].flags
          THEN <<<<FTRACE_ENTRY, mtd.rstack[s].id>>>> ELSE <<>>)
         \o EntriesDue(s + 1, top)

\* what the exit hook of a recordable frame emits when it emits the frame
EmittedAtExit ==
    EntriesDue(0, mtd.idx) \o <<<<FTRACE_EXIT, Top.id>>>>

\* the exit hook emits Top's EXIT as the last record of the step
ExitEmitted ==
    Len(NewRecs) > 0 /\ NewRecs[Len(NewRecs)] = <<FTRACE_EXIT, Top.id>>

\* the exit hook attempted one record and dropped it for want of a segment
ExitDropped == NewRecs = <<>> /\ dropped' = dropped + 1

\* C11, first half: when an exit hook emits the EXIT of a recordable call,
\* the records it emits are the ENTRY of every in-flight recordable ancestor
\* that is not written yet, outermost to innermost, then the call's own
\* ENTRY unless written, then its EXIT
C11_AncestorsFirst ==
    [][(ExitStep /\ NotSkipped(Top) /\ ExitEmitted)
           => NewRecs = EmittedAtExit]_vars

SwitchOff == mcount_enabled /\ ~mcount_enabled'

\* is sequence p the beginning of sequence q?
IsPrefix(p, q) == Len(p) <= Len(q) /\ p = SubSeq(q, 1, Len(p))

\* the flush of the in-flight frames ran in this step: the ENTRY of every
\* recordable frame not written yet was emitted, outermost first, or the
\* first of them that found no segment and those after it were dropped and
\* counted
Flushed ==
    \/ NewRecs = EntriesDue(0, mtd.idx)
    \/ /\ IsPrefix(NewRecs, EntriesDue(0, mtd.idx))
       /\ dropped' >= Len(EntriesDue(0, mtd.idx)) - Len(NewRecs)

\* C12: the entry hook whose TRACE_OFF trigger turns tracing off emits the
\* ENTRY records of all in-flight recordable frames that are not written
\* yet, before it returns and so before any later record and before the
\* thread pushes a frame that is marked DISABLED; no such frame is left
\* without a record and without being counted as lost
C12_FlushAtTraceOff ==
    [][SwitchOff => Flushed]_vars

\* call c matched an include filter, or was made while a call that matched
\* one was in flight
Included(c) ==
    \E a \in calls[c].anc \cup {c} :
        /\ "FILTER" \in mcount_triggers[calls[a].child].flags
        /\ mcount_triggers[calls[a].child].fmode = "IN"

\* call c matched an exclude filter, or was made while a call that matched
\* one was in flight
Excluded(c) ==
    \/ calls[c].filter.out_count > 0
    \/ /\ "FILTER" \in mcount_triggers[calls[c].child].flags
       /\ mcount_triggers[calls[c].child].fmode = "OUT"

\* the exit hook is about to pop a frame that passes the threshold test
TopPassesThreshold ==
    exit_records([Top EXCEPT !.end_time = mcount_gettime])

\* C13: in include filter mode every ENTRY and EXIT record in the stream is
\* of a call that matched an include filter or had an in-flight ancestor
\* that matched one, so nothing is emitted for a call made before the
\* matched call or after it returned; and a call inside the matched subtree
\* that passes the threshold test has its EXIT emitted when it returns,
\* unless an exclude filter or the depth limit turned it away
C13_IncludeFilter ==
    /\ [](conf.mcount_filter_mode = "IN"
             => \A i \in Recs(FTRACE_ENTRY) \cup Recs(FTRACE_EXIT) :
                   Included(hist[i].id))
    /\ [][(/\ conf.mcount_filter_mode = "IN" /\ ExitStep
           /\ Included(Top.id) /\ TopPassesThreshold
           /\ ~Excluded(Top.id) /\ Top.start_time # 0)
              => ExitEmitted]_vars

\* in include mode, a call made inside the matched call was emitted with it,
\* and a call made after the matched call returned was filtered out: not
\* pushed (mcount_entry returned -1), or pushed as NORECORD and popped again
C13_Witness ==
    /\ conf.mcount_filter_mode = "IN"
    /\ \E i \in Recs(FTRACE_EXIT) :
          \E a \in calls[hist[i].id].anc : calls[a].child = "inc"
    /\ ncalls > 0 /\ ~Included(ncalls) /\ mtd.idx = 0
    /\ \/ last.op = "mcount_entry" /\ last.ret = -1
       \/ last.op = "cygprof_exit" /\ last.e.id = ncalls
                                   /\ "NORECORD" \in last.e.flags

\* the positions in the stream of the control messages of one type
Msgs(type) ==
    {i \in 1 .. Len(hist) : hist[i].k = "msg" /\ hist[i].type = type}

\* the names of the shared-memory objects one thread created
NamesBy(t) == {<<o.tid, o.idx>> : o \in {p \in os.objs : p.by = t}}

\* C14: the child of a fork never creates an object under a name the parent
\* used; every segment of the child's ring, which is what it writes to, has
\* the child's thread id in its name; the fork leaves the child with a new
\* ring of two segments, none inherited, segment 0 being the current one;
\* FORK_START is the first message of the fork and FORK_END follows the
\* REC_START of the new ring
C14_ChildRingFresh ==
    /\ [](NamesBy(ParentTid) \cap NamesBy(ChildTid) = {})
    /\ []((os.tid = ChildTid /\ alive)
             => \A i \in 0 .. (mtd.shmem.nr_buf - 1) : shm[i].tid = ChildTid)
    /\ [][(os'.tid # os.tid /\ alive')
             => /\ hist'[Len(hist) + 1] = Msg("FORK_START", 0, ParentTid)
                /\ hist'[Len(hist') - 1] = Msg("REC_START", 0, 0)
                /\ hist'[Len(hist')] = Msg("FORK_END", 0, ChildTid)
                /\ mtd'.shmem.nr_buf = 2 /\ mtd'.shmem.curr = 0
                /\ shm'[0].trail = <<{"NEW"}, {"RECORDING"}>>
                /\ shm'[1].trail = <<{"NEW"}>>
                /\ \A i \in Segs : shm'[i].size = 0
                /\ \A i \in Segs \ {0, 1} : shm'[i] = NoSeg]_vars

\* the parent had written records into its ring; the child has extended
\* its new ring to three segments and written a record after FORK_END
C14_Witness ==
    /\ os.tid = ChildTid /\ alive
    /\ Cardinality(NamesBy(ParentTid)) = 2
    /\ Cardinality(NamesBy(ChildTid)) = 3
    /\ mtd.shmem.nr_buf = 3 /\ mtd.shmem.curr >= 0
    /\ \E i \in Msgs("FORK_END"), j \in Recs(FTRACE_EXIT), k \in Recs(FTRACE_EXIT) :
          k < i /\ i < j

Max(S) == CHOOSE x \in S : \A y \in S : x >= y

\* C15: a frame pushed by mcount_entry() keeps the address its return slot
\* held at entry; while the program runs, the return slot of the innermost
\* frame, the one that returns next, holds the trampoline, so its return
\* goes through mcount_exit(); mcount_exit() pops the frame of the call
\* made last among those in flight and returns the address saved for it
C15_ExitReturnsSavedAddress ==
    /\ [](\A s \in 0 .. (mtd.idx - 1) :
             mtd.rstack[s].parent_ip = RetAddr(mtd.rstack[s].id))
    /\ []((pc = Idle /\ mtd.idx > 0 /\ Top.style = "mcount")
             => Top.parent_loc = mcount_return)
    /\ [][(ExitStep /\ last'.op = "mcount_exit")
             => /\ last'.e.id = Max(InFlight)
                /\ last'.ret = RetAddr(Max(InFlight))
                /\ InFlight' = InFlight \ {Max(InFlight)}]_vars

\* a call with a RECOVER trigger has returned through mcount_exit(): while
\* it ran the return slot of its caller held the caller's own return
\* address, and now holds the trampoline again
C15_Witness ==
    /\ last.op = "mcount_exit" /\ "RECOVER" \in last.e.flags
    /\ last.ret = RetAddr(last.e.id)
    /\ mtd.idx = 2 /\ last.e.id = 3
    /\ \A s \in 0 .. 1 : mtd.rstack[s].parent_loc = mcount_return

\* record_trace_data() ran for the frame the exit hook pops: it emitted
\* records, or counted the ones it had to drop
TraceDataRan == NewRecs # <<>> \/ dropped' # dropped

\* the emission rule as claimed, for the frame about to be popped
EmissionRule ==
    /\ "NORECORD" \notin Top.flags
    /\ \/ mcount_gettime - Top.start_time >= mcount_threshold
       \/ Top.flags \cap {"WRITTEN", "TRACE"} # {}

\* C16: at the exit of a pushed call, the call is emitted if and only if it
\* is not NORECORD and its duration is at least the threshold or its
\* WRITTEN flag or its TRACE flag is set
C16_EmissionRule ==
    [][ExitStep => (TraceDataRan <=> EmissionRule)]_vars

\* the REC_START and REC_END messages a step sends, in order
NewRingMsgs ==
    SelectSeq(SubSeq(hist', Len(hist) + 1, Len(hist')),
              LAMBDA m : m.k = "msg" /\ m.type \in {"REC_START", "REC_END"})

\* the step sends REC_END for segment i
NewRecEnd(i) ==
    \E k \in 1 .. Len(NewRingMsgs) : NewRingMsgs[k] = Msg("REC_END", i, 0)

\* a hook of the step left the segment that was the current one
Rotated ==
    /\ tsd /\ mtd.shmem.curr >= 0
    /\ NewRingMsgs # <<>> \/ mtd'.shmem.curr = -1

\* when rotation leaves the current segment, REC_END is sent for it first
RecEndAtRotation ==
    [][Rotated => /\ NewRingMsgs # <<>>
                  /\ NewRingMsgs[1] = Msg("REC_END", mtd.shmem.curr, 0)]_vars

NewStarts == SelectSeq(NewRingMsgs, LAMBDA m : m.type = "REC_START")

\* the consumer handles no REC_END during the step
Quiet == \A i \in Segs : (i \in pending \/ NewRecEnd(i)) => i \in pending'

\* the segments of the ring whose flag does not contain RECORDING
NotRecording ==
    {i \in 0 .. (mtd.shmem.nr_buf - 1) : "RECORDING" \notin shm[i].flag}

\* element e of the history is a record in segment i or the start of it
About(e, i) == e.buf = i /\ (e.k = "rec" \/ e.type = "REC_START")

\* the first rotation of a step takes the lowest-index segment without
\* RECORDING, and a new one only if there is none
SelectsLowestFree ==
    [][(tsd /\ Quiet /\ NewStarts # <<>>) =>
          NewStarts[1].buf = IF NotRecording # {} THEN Min(NotRecording)
                             ELSE mtd.shmem.nr_buf]_vars

\* the ring grows only when every segment has RECORDING set
ExtendsWhenAllRecording ==
    [][(tsd /\ Quiet /\ mtd'.shmem.nr_buf > mtd.shmem.nr_buf) =>
          \A i \in 0 .. (mtd'.shmem.nr_buf - 1) :
              "RECORDING" \in shm'[i].flag]_vars

\* the first record written after a segment is selected is at offset 0
SizeReset ==
    \A k \in Msgs("REC_START") : \A m \in (k + 1) .. Len(hist) :
        (/\ hist[m].k = "rec" /\ hist[m].buf = hist[k].buf
         /\ \A n \in (k + 1) .. (m - 1) : ~About(hist[n], hist[k].buf))
        => hist[m].off = 0

\* a segment whose REC_END the consumer has not handled is neither selected
\* nor written since the REC_END was sent
HandedOffUntouched ==
    \A i \in pending :
        \E k \in Msgs("REC_END") :
            /\ hist[k].buf = i
            /\ \A m \in (k + 1) .. Len(hist) : ~About(hist[m], i)

\* C18: rotation selects the lowest-index segment whose flag does not
\* contain RECORDING, resets its size to 0 and sets RECORDING on it; the
\* producer never resets or appends to a segment it has handed off before
\* the consumer has cleared RECORDING, and it extends the ring only when
\* every segment has RECORDING set
C18_RotationPicksFreeSegment ==
    /\ SelectsLowestFree
    /\ ExtendsWhenAllRecording
    /\ [](SizeReset /\ HandedOffUntouched)
    /\ []((tsd /\ mtd.shmem.curr >= 0) =>
             "RECORDING" \in shm[mtd.shmem.curr].flag)
    /\ [][\A i \in pending \cap pending' : shm'[i] = shm[i]]_vars

\* segment 0 was handed off, written out by the consumer and selected again
\* while segment 1 is still handed off: the ring was not extended
C18_Witness ==
    /\ tsd /\ mtd.shmem.curr = 0 /\ mtd.shmem.nr_buf = 2
    /\ shm[0].flag = {"WRITTEN", "RECORDING"}
    /\ 1 \in pending

\* the ring was extended: all three segments have RECORDING set
C18_WitnessExtended ==
    /\ tsd /\ mtd.shmem.curr = 2 /\ mtd.shmem.nr_buf = 3
    /\ \A i \in 0 .. 2 : "RECORDING" \in shm[i].flag

\* the exit hook of the step calls record_trace_data() for the frame it pops
\* (lines 839-845)
ExitRecords ==
    /\ ExitStep /\ mcount_enabled /\ "NORECORD" \notin Top.flags
    /\ \/ mcount_gettime - Top.start_time > mcount_threshold
       \/ Top.flags \cap {"WRITTEN", "TRACE"} # {}

\* the ring is in the dropping state
Dropping == tsd /\ mtd.shmem.curr = -1

\* what a step appends to the history
NewHist == SubSeq(hist', Len(hist) + 1, Len(hist'))

\* the step leaves the dropping state: segment j is started, the lost
\* records are reported at its head and the next thing in the stream is a
\* record of the frames in flight, in segment j
Recovers(j) ==
    /\ Len(NewHist) >= 4
    /\ NewHist[1] = Msg("REC_START", j, 0)
    /\ NewHist[2].k = "rec" /\ NewHist[2].type = FTRACE_LOST
    /\ NewHist[2].buf = j /\ NewHist[2].addr = mtd.shmem.losts
    /\ NewHist[3] = Msg("LOST", j, mtd.shmem.losts)
    /\ NewHist[4].k = "rec" /\ NewHist[4].type # FTRACE_LOST
    /\ NewHist[4].buf = j
    /\ \E s \in 0 .. (mtd.idx - 1) : mtd.rstack[s].id = NewHist[4].id

\* the step finds no segment: nothing is written, the ring stays as it is
\* and the records dropped are counted
StaysDropping ==
    /\ hist' = hist /\ mtd'.shmem.curr = -1
    /\ mtd'.shmem.nr_buf = mtd.shmem.nr_buf
    /\ NotRecording = {}
    /\ dropped' > dropped
    /\ mtd'.shmem.losts - mtd.shmem.losts >= dropped' - dropped

\* C19: a failure to allocate a new segment at rotation is not fatal: it
\* leaves curr = -1; every record attempted while no segment is available
\* is dropped and counted in losts; each later attempt retries rotation,
\* and the first attempt made once a segment can be reused or allocated
\* writes its record into that segment, with curr >= 0
C19_DropAndRecover ==
    /\ [](tsd => /\ (mtd.shmem.curr = -1) <=> (dropped > 0)
                 /\ mtd.shmem.losts >= dropped)
    /\ [][(tsd /\ alive /\ mtd'.shmem.curr = -1) => alive']_vars
    /\ [][(Dropping /\ ExitRecords) =>
            \/ StaysDropping
            \/ /\ \E j \in Segs :
                     /\ Recovers(j)
                     /\ j = IF NotRecording # {} /\ Quiet
                           THEN Min(NotRecording) ELSE j
               /\ mtd'.shmem.curr >= 0 \/ dropped' > 0]_vars

\* an exit hook found the ring in the dropping state, got a third segment
\* allocated and wrote its record there
C19_Witness ==
    /\ tsd /\ mtd.shmem.curr = 2 /\ dropped = 0 /\ mtd.shmem.losts = 0
    /\ last.op \in {"mcount_exit", "cygprof_exit"}
    /\ \E k \in Msgs("LOST") :
          /\ hist[k].buf = 2 /\ k < Len(hist)
          /\ hist[k + 1].k = "rec" /\ hist[k + 1].buf = 2

\* an exit hook found the ring in the dropping state and left it there:
\* two exits in a row dropped their records
C19_WitnessDropped ==
    /\ Dropping /\ dropped >= 2 /\ hist # <<>>
    /\ last.op \in {"mcount_exit", "cygprof_exit"}
    /\ mtd.shmem.losts >= 4

\* the ENTRY records due for the ancestors of the frame the exit hook pops
AncDue == EntriesDue(0, mtd.idx - 1)

\* the ENTRY record due for the frame itself
OwnDue ==
    IF Top.flags \cap ({"WRITTEN"} \cup SKIP_FLAGS) = {}
    THEN <<<<FTRACE_ENTRY, Top.id>>>> ELSE <<>>

\* all that record_trace_data() has to emit at the exit of the frame
AllDue == AncDue \o OwnDue \o <<<<FTRACE_EXIT, Top.id>>>>

\* the forward walk of the exit hook failed: the ENTRY of an ancestor that
\* was due is not among the records of the step
WalkFailed ==
    /\ ExitRecords /\ "WRITTEN" \notin Top.flags
    /\ ~IsPrefix(AncDue, NewRecs)

\* losts before the walk failed: 0 if the step reported the lost records
LostsBase ==
    IF \E k \in 1 .. Len(NewHist) : NewHist[k].k = "msg" /\ NewHist[k].type = "LOST"
    THEN 0 ELSE mtd.shmem.losts

\* what record_ret_stack() adds to losts for the record it fails to write
\* (lines 208 and 449)
FailedCost == 2

\* the records record_trace_data() skips after the ENTRY that failed
Skipped == Len(AllDue) - Len(NewRecs) - 1

\* C20: if emitting an ENTRY fails during the forward walk, that call of
\* record_trace_data() emits no further ENTRY and no EXIT, losts grows by
\* the number of records skipped (on top of what the failed record itself
\* is counted as), and every entry whose ENTRY was not written keeps WRITTEN
\* unset; a later exit that records emits the ENTRY records still missing
C20_WalkFailureSkipsAndRetries ==
    /\ [][WalkFailed =>
            /\ IsPrefix(NewRecs, AncDue)
            /\ mtd'.shmem.losts = LostsBase + FailedCost + Skipped
            /\ \A s \in 0 .. (mtd.idx - 2) :
                  "WRITTEN" \in mtd'.rstack[s].flags
                      <=> \/ "WRITTEN" \in mtd.rstack[s].flags
                          \/ \E k \in 1 .. Len(NewRecs) :
                                NewRecs[k] = <<FTRACE_ENTRY, mtd.rstack[s].id>>]_vars
    /\ [][(ExitRecords /\ "WRITTEN" \notin Top.flags) =>
            \/ NewRecs = AllDue
            \/ IsPrefix(NewRecs, AllDue) /\ mtd'.shmem.curr = -1]_vars

\* call 3, made by call 2, returned when no segment could be had for the
\* ENTRY of call 2: nothing of call 3 is in the stream, four records were
\* reported lost, and the exit of call 2 then emitted the ENTRY of call 2
C20_Witness ==
    /\ ncalls = 3 /\ mtd.idx = 0 /\ tsd
    /\ \A k \in 1 .. Len(hist) :
          (hist[k].k = "rec" /\ hist[k].type # FTRACE_LOST) => hist[k].id # 3
    /\ \E k \in Msgs("LOST") :
          /\ hist[k].addr = 4 /\ k + 2 <= Len(hist)
          /\ hist[k + 1].k = "rec" /\ hist[k + 1].type = FTRACE_ENTRY
          /\ hist[k + 1].id = 2
          /\ \E m \in (k + 2) .. Len(hist) :
                /\ hist[m].k = "rec" /\ hist[m].type = FTRACE_EXIT
                /\ hist[m].id = 2

\* the filter state of the thread after a step
FilterAfter ==
    [depth |-> mtd'.filter.depth, in_count |-> mtd'.filter.in_count,
     out_count |-> mtd'.filter.out_count]

Trig == mcount_triggers[calls'[ncalls'].child]

\* the entry check gets as far as the depth test: the call is not inside
\* an exclude match and not missed by the include filters (lines 694-716)
CheckReached ==
    /\ FilterAtEntry.out_count = 0
    /\ ~ /\ "FILTER" \notin Trig.flags
         /\ conf.mcount_filter_mode = "IN"
         /\ FilterAtEntry.in_count = 0

\* filter.depth after the overrides of lines 710 and 722-723
DepthAfterOverrides ==
    IF "DEPTH" \in Trig.flags THEN Trig.depth
    ELSE IF "FILTER" \in Trig.flags THEN conf.mcount_depth
    ELSE FilterAtEntry.depth

\* the entry check answered FILTER_OUT: mcount_entry() returns -1 and
\* pushes nothing, cygprof_entry() pushes a frame without a start time
FilteredOut ==
    IF last'.op = "mcount_entry"
    THEN last'.ret = -1 /\ mtd'.idx = mtd.idx
    ELSE mtd'.idx = mtd.idx + 1 /\ last'.e.start_time = 0

\* the entry check answered FILTER_IN: the frame pushed has a start time
FilteredIn ==
    /\ last'.ret = 0 /\ mtd'.idx = mtd.idx + 1
    /\ last'.e.start_time = mcount_gettime

\* tracing was enabled at every entry so far and is now, and no function
\* called so far has a DEPTH or a FILTER trigger
PlainDepth ==
    /\ mcount_enabled
    /\ \A c \in 1 .. ncalls :
          /\ calls[c].en
          /\ mcount_triggers[calls[c].child].flags
                 \cap {"DEPTH", "FILTER", "TRACE_OFF"} = {}

\* no record is in the stream for a call with at least the default depth
\* of calls in flight at its entry
NoRecordBelowDepth ==
    \A k \in 1 .. Len(hist) :
        (hist[k].k = "rec" /\ hist[k].type # FTRACE_LOST)
        => Cardinality(calls[hist[k].id].anc) < conf.mcount_depth

\* C22: while tracing is enabled the entry check answers FILTER_OUT for a
\* call that reaches the depth test with filter.depth <= 0 after the
\* trigger overrides, and otherwise takes exactly one off filter.depth;
\* hence with tracing enabled throughout and no DEPTH or FILTER trigger
\* matching no record is emitted for a call nested deeper than the default
\* depth
C22_DepthLimit ==
    /\ [][(EntryHookRuns /\ alive' /\ CheckReached /\ mcount_enabled') =>
            IF DepthAfterOverrides <= 0
            THEN FilteredOut /\ mtd'.filter.depth = DepthAfterOverrides
            ELSE FilteredIn /\ mtd'.filter.depth = DepthAfterOverrides - 1]_vars
    /\ [](PlainDepth => NoRecordBelowDepth)

\* with a default depth of 1, call 2 was made while call 1 was in flight and
\* turned away, and call 1 was recorded
C22_Witness ==
    /\ conf.mcount_depth = 1 /\ PlainDepth /\ ncalls >= 2
    /\ calls[2].anc = {1} /\ mtd.idx = 0
    /\ \E k \in 1 .. Len(hist) :
          hist[k].k = "rec" /\ hist[k].type = FTRACE_EXIT /\ hist[k].id = 1

\* the three trailing segments of the ring a shrink u found
Trailing(u) == (u.nr_buf - 3) .. (u.nr_buf - 1)

\* what holds of every shrink: the segment unmapped is the last of the ring,
\* it was WRITTEN, so neither the segment just selected nor one with
\* RECORDING set, and curr is, and stays, a valid index or -1
ShrinkSafe ==
    /\ \A u \in os.unmapped :
          /\ u.idx = u.nr_buf - 1
          /\ u.flags[u.idx] = {"WRITTEN"}
          /\ u.curr # u.idx /\ u.curr >= 0 /\ u.curr < u.nr_buf - 1
          /\ "RECORDING" \in u.flags[u.curr]
    /\ tsd => mtd.shmem.curr < mtd.shmem.nr_buf

\* C23: during rotation the ring is shrunk by one segment, the last, only
\* when at least the three trailing segments are all WRITTEN; the current
\* segment and a segment with RECORDING set are never unmapped, and curr
\* stays below nr_buf
C23_ShrinkOnlyTrailingWritten ==
    /\ ShrinkSafe
    /\ \A u \in os.unmapped :
          \A i \in Trailing(u) : u.flags[i] = {"WRITTEN"}

\* what the code tests (lines 229-246): three segments above the selected
\* one are WRITTEN, wherever they are, and the last one is
ShrinkAsCoded ==
    \A u \in os.unmapped :
        /\ u.curr + 3 <= u.nr_buf
        /\ Cardinality({i \in (u.curr + 1) .. (u.nr_buf - 1) :
                            u.flags[i] = {"WRITTEN"}}) >= 3
        /\ u.flags[u.nr_buf - 1] = {"WRITTEN"}

\* a shrink that found its three trailing segments WRITTEN
C23_WitnessTrailing ==
    \E u \in os.unmapped : \A i \in Trailing(u) : u.flags[i] = {"WRITTEN"}

\* mcount_entry() ran its entry check, the check answered FILTER_OUT and the
\* hook returned -1 (lines 921-924)
TurnedAway ==
    /\ EntryHookRuns /\ alive'
    /\ last'.op = "mcount_entry" /\ last'.ret = -1

\* a call turned away pushes nothing: idx and the stack are as before, so
\* that no exit hook will run for it, and the filter counters and the depth
\* are as before
TurnedAwayPushesNothing ==
    [][TurnedAway => /\ mtd'.idx = mtd.idx
                     /\ tsd => mtd'.rstack = mtd.rstack
                     /\ FilterAfter = FilterAtEntry]_vars

\* C24: when mcount_entry() returns -1 because the entry check answered
\* FILTER_OUT, nothing is pushed, no exit hook fires for the call, and the
\* filter state (depth, in_count, out_count) and the global enabled flag
\* are what they were before the call
C24_FilteredOutLeavesNoTrace ==
    [][TurnedAway => /\ mtd'.idx = mtd.idx
                     /\ tsd => mtd'.rstack = mtd.rstack
                     /\ FilterAfter = FilterAtEntry
                     /\ mcount_enabled' = mcount_enabled]_vars

\* a call turned away with the depth exhausted and nothing changed
C24_WitnessUnchanged ==
    /\ last.op = "mcount_entry" /\ last.ret = -1 /\ alive
    /\ tsd /\ mtd.idx = 1 /\ mtd.filter.depth = 0 /\ mcount_enabled
    /\ ncalls = 2

\* the in-flight entries of the thread
InFlightSlots == IF tsd THEN 0 .. (mtd.idx - 1) ELSE {}

\* C25: the WRITTEN flags of the in-flight entries are ancestor-closed: below
\* an in-flight entry that is WRITTEN, every in-flight entry that is
\* recordable (neither NORECORD nor DISABLED) is WRITTEN too
C25_WrittenAncestorClosed ==
    \A j \in InFlightSlots :
        "WRITTEN" \in mtd.rstack[j].flags
            => \A i \in 0 .. (j - 1) :
                   NotSkipped(mtd.rstack[i])
                       => "WRITTEN" \in mtd.rstack[i].flags

\* two in-flight entries written by a walk that started above them
C25_Witness ==
    /\ tsd /\ mtd.idx = 2
    /\ "WRITTEN" \in mtd.rstack[1].flags /\ NotSkipped(mtd.rstack[1])
    /\ "WRITTEN" \in mtd.rstack[0].flags /\ NotSkipped(mtd.rstack[0])

\* a WRITTEN entry above one that is skipped and stays unwritten
C25_WitnessSkipped ==
    /\ tsd /\ mtd.idx >= 2
    /\ "WRITTEN" \in mtd.rstack[mtd.idx - 1].flags
    /\ \E i \in 0 .. (mtd.idx - 2) :
          ~NotSkipped(mtd.rstack[i]) /\ "WRITTEN" \notin mtd.rstack[i].flags

\* the REC_START and REC_END messages sent for segment i, in order
RingMsgsOf(i) ==
    SelectSeq(hist, LAMBDA m : /\ m.k = "msg"
                               /\ m.type \in {"REC_START", "REC_END"}
                               /\ m.buf = i)

\* REC_START first, then REC_END and REC_START in turns
Alternate(s) ==
    \A k \in 1 .. Len(s) :
        s[k].type = IF k % 2 = 1 THEN "REC_START" ELSE "REC_END"

\* C26: for every segment name the REC_START and REC_END messages of the
\* thread alternate, starting with REC_START: no REC_END without an
\* unmatched REC_START before it and no second REC_END for one REC_START,
\* whatever the consumer does and including the teardown by shmem_finish()
C26_StartEndAlternate ==
    \A i \in Segs : Alternate(RingMsgsOf(i))

\* the messages alternate as long as mcount_finish() has not run
AlternateBeforeFinish ==
    ~mcount_finished => \A i \in Segs : Alternate(RingMsgsOf(i))

\* what shmem_finish() adds: one REC_END for each segment whose REC_END was
\* sent at rotation and not handled yet, and nothing else out of turn
AlternateButHandedOff ==
    [][mcount_finished' /\ ~mcount_finished =>
          \A i \in Segs :
              LET old == RingMsgsOf(i)
                  new == SubSeq(RingMsgsOf(i)', Len(old) + 1,
                                Len(RingMsgsOf(i)'))
              IN /\ Len(new) <= 1
                 /\ new # <<>> => /\ new[1].type = "REC_END"
                                  /\ tsd /\ i < mtd.shmem.nr_buf
                                  /\ "RECORDING" \in shm[i].flag
                 /\ (new # <<>> /\ ~Alternate(RingMsgsOf(i)'))
                        => i \in pending]_vars

\* a teardown that finds every segment handled or current: the messages
\* alternate to the end
C26_WitnessClean ==
    /\ mcount_finished /\ Len(hist) >= 6
    /\ \A i \in Segs : Alternate(RingMsgsOf(i))

====
